---- MODULE Spec2Model ----
(***************************************************************************)
(* Model of the Coda dashboard synchronizer and the upmarket funnel         *)
(* (notebooks/update_coda_dashboard_daily.py, notebooks/coda_updater.py,    *)
(* notebooks/upmarket_funnel.py).                                           *)
(*                                                                          *)
(* Spec: update_all, one sequential thread that updates eight logical       *)
(* tables one after the other.  Each remote request is one step; its        *)
(* answer is chosen by the remote.  The remote applies accepted row         *)
(* deletes and inserts asynchronously (RemoteApplyDelete,                   *)
(* RemoteApplyInsert).                                                      *)
(* SpecClient: a CodaUpdater constructed (or main run) and one of its       *)
(* operations called.                                                       *)
(* SpecUpsert: one batch upserted once and, in another order, twice.        *)
(* SpecFunnel, SpecLead: generate_funnel and categorize_lead.               *)
(* SpecStages: generate_funnel after its categorization loops, on longer    *)
(* lists.                                                                   *)
(* SpecUrl, SpecTarget: parse_coda_url and get_current_quarter_target, one  *)
(* call each (the call and its result are held in call and returned).       *)
(* Each specification leaves the variables of the others at rest.           *)
(***************************************************************************)
EXTENDS Integers, Sequences, FiniteSets, TLC

\* ------------------------------------------------------------------ bounds
\* Most rows a singleton table holds when its update starts.
MaxRows == 3
\* Most rows of one batch handed to a batch updater.
MaxBatch == 2
\* Most tables, other than the wanted one, in the document's table listing.
MaxOthers == 1
\* Most accounts handed to update_accounts_table.
MaxAccounts == 5
\* Most rows of the remote table a batch is upserted into.
MaxTable == 1
\* Most leads of one segment in the lists generate_funnel is run on after
\* its categorization loops.
MaxCount == 33
\* Most leads, over all partners, handed to generate_funnel.
MaxLeads == 6

\* ------------------------------------------------------- program constants
\* update_executive_summary_text: max_retries of the delete-confirmation poll.
DeleteMaxRetries == 10
\* update_executive_summary_text: max_retries of the visibility poll.
InsertMaxRetries == 8
\* update_executive_summary_text: the literal fallback column names
\* "Summary Text", "Text", "Content", "Summary", "Name".
FallbackNames == 5
\* update_funnel_summary: the rows it builds.
SummaryRows == 7

None == "None"

\* The logical tables in the order update_all updates them.
UpdateOrder ==
    <<"last_updated", "executive_summary", "upmarket_funnel", "funnel_summary",
      "managed_revenue", "referral_revenue", "training", "partner_summaries">>
NumTables == Len(UpdateOrder)
Tables == 1..NumTables

\* The two tables updated by delete-then-insert (singleton-replace).
IsSingleton(t) == UpdateOrder[t] \in {"last_updated", "executive_summary"}
IsExecSummary(t) == UpdateOrder[t] = "executive_summary"

\* table_name of each updater; attempt 2 is the alternative name of
\* update_executive_summary_text.
TableName(t, attempt) ==
    CASE UpdateOrder[t] = "last_updated" -> "Last Updated"
      [] UpdateOrder[t] = "executive_summary" ->
            IF attempt = 1 THEN "Executive Summary" ELSE "Executive Summary Text"
      [] UpdateOrder[t] = "upmarket_funnel" -> "Upmarket Sales Funnel"
      [] UpdateOrder[t] = "funnel_summary" -> "Funnel Summary KPIs"
      [] UpdateOrder[t] = "managed_revenue" -> "CODA_All_Partners_Managed_Revenue"
      [] UpdateOrder[t] = "referral_revenue" -> "CODA_All_Partners_Referral_Revenue"
      [] UpdateOrder[t] = "training" -> "CODA_All_Partners_Training"
      [] OTHER -> "CODA_Partner_Summaries"

\* The key of `data` that guards the update of table t in update_all
\* (None: the update is unconditional).
DataKey(t) ==
    CASE IsSingleton(t) -> None
      [] UpdateOrder[t] \in {"upmarket_funnel", "funnel_summary"} -> "funnel_data"
      [] OTHER -> UpdateOrder[t]

\* keyColumns each batch updater passes to upsert_row.
KeyColumns(t) ==
    CASE UpdateOrder[t] = "upmarket_funnel" -> <<"Stage">>
      [] UpdateOrder[t] = "funnel_summary" -> <<"Metric">>
      [] UpdateOrder[t] = "partner_summaries" -> <<"Partner", "Section">>
      [] OTHER -> <<"Partner">>

\* ------------------------------------------------------------------ helpers
Range(s) == {s[i] : i \in DOMAIN s}

RECURSIVE Flatten(_)
Flatten(ss) == IF ss = <<>> THEN <<>> ELSE Head(ss) \o Flatten(Tail(ss))

\* An item of the table listing.
TableItem(name) == [name |-> name, id |-> name]

\* The ways the remote may page a listing: one page, or two pages cut at
\* any item (the first response then carries a nextPageToken).
Pagings(items) ==
    {<<items>>} \cup
    {<<SubSeq(items, 1, k), SubSeq(items, k + 1, Len(items))>> :
        k \in 1..(Len(items) - 1)}

\* The table listings of a document as one lookup sees them: the wanted
\* table or not, among up to MaxOthers other tables, in either order.
RECURSIVE Others(_)
Others(n) == IF n = 0 THEN <<>> ELSE Others(n - 1) \o <<TableItem("Other")>>

Listings(name) ==
    UNION {{Others(n), <<TableItem(name)>> \o Others(n),
            Others(n) \o <<TableItem(name)>>} : n \in 0..MaxOthers}

\* A find_table_by_name that forgets to compare the name.
FirstItemId(items, table_name) ==
    IF items = <<>> THEN None ELSE items[1].id

\* find_table_by_name, the loop over the listed items: the id of the first
\* table of that name, or None.
RECURSIVE FindTableByName(_, _)
FindTableByName(items, table_name) ==
    IF items = <<>> THEN None
    ELSE IF Head(items).name = table_name THEN Head(items).id
    ELSE FindTableByName(Tail(items), table_name)

\* The rows of a table in listing order.
RECURSIVE RowSeq(_)
RowSeq(S) ==
    IF S = {} THEN <<>>
    ELSE LET m == CHOOSE x \in S : \A y \in S : x <= y
         IN  <<m>> \o RowSeq(S \ {m})

\* ---------------------------------------------------------------- variables
VARIABLES
    pc,            \* position of update_all / of the updater it is in
    tbl,           \* index in UpdateOrder of the table being updated
    status,        \* per table: pending, nodata, skipped, returned, raised
    data,          \* the keys update_all has found in `data`
    attempt,       \* update_executive_summary_text: 1 first name, 2 alternative
    pages,         \* remote: the pages of the table listing of this lookup
    page_token,    \* list_tables: 0 for None, else the page the token names
    all_items,     \* list_tables: the items accumulated
    table_id,      \* find_table_by_name's result; "unresolved" before it
    column_id,     \* TRUE when the columns request gave a column id
    startRows,     \* remote: the rows of the table when the updater started
    rows,          \* remote: the pre-existing rows still in the table
    pendingDel,    \* remote: deletes accepted and not yet applied
    pendingIns,    \* remote: inserts accepted and not yet visible
    newVisible,    \* remote: inserted rows visible in the table
    existing_rows, \* the row ids the updater listed
    idx,           \* loop index: delete loop, fallback loop, upsert loop
    retry,         \* polls made by the running poll loop
    pollEnd,       \* how the delete-confirmation poll ended
    batchLen,      \* rows of the batch given to a batch updater
    log,           \* the row-mutation requests sent for this table, in order
    out,           \* kinds of message printed by this updater
    result         \* return value of this updater

procVars ==
    <<attempt, pages, page_token, all_items, table_id, column_id, startRows,
      rows, pendingDel, pendingIns, newVisible, existing_rows, idx, retry,
      pollEnd, batchLen, log, out, result>>
lookupVars == <<attempt, pages, page_token, all_items, table_id>>
remoteVars == <<startRows, rows, pendingDel, pendingIns, newVisible>>
dashVars == <<pc, tbl, status, data, procVars>>

\* A CodaUpdater used directly: its construction and one operation on it;
\* or one call of a module-level function.
VARIABLES
    environ,       \* os.environ: CODA_API_TOKEN and CODA_DOC_ID
    cpc,           \* position of the caller of CodaUpdater; "off": not used
    self,          \* the CodaUpdater's api_token, doc_id, default_table_id
    call,          \* the call in progress: the operation and its arguments
    requests,      \* the requests sent, in order, each with its answer
    tables,        \* remote: the pages of the document's table listing
    c_page_token,  \* list_tables: page_token, 0 for None
    c_all_items,   \* list_tables: all_items
    after,         \* what the caller of list_tables does with its result
    c_table_id,    \* the table id the operation works on
    c_idx,         \* loop index: delete_rows, update_accounts_table
    c_count,       \* deleted_count, updated_count
    c_errors,      \* update_accounts_table: errors
    returned,      \* the value returned; "running" before
    raised         \* the exception raised; None if none

clientVars ==
    <<environ, cpc, self, call, requests, tables, c_page_token, c_all_items, after,
      c_table_id, c_idx, c_count, c_errors, returned, raised>>

\* One batch upserted into a remote table: once in the order given, and,
\* into a copy of the table, twice in another order.
VARIABLES
    u_pc,          \* the run in progress: "once", "first", "second"; "done"
    batch,         \* the rows handed to the batch updater
    order,         \* the order in which the repeated run takes the rows
    once,          \* remote: the table the single run writes to
    twice,         \* remote: the table the repeated run writes to
    u_idx          \* loop index of the run in progress

upsertVars == <<u_pc, batch, order, once, twice, u_idx>>

\* UpmarketFunnelGenerator.generate_funnel.
VARIABLES
    f_pc,              \* "categorize": in the loop over the leads; "done"
    partner,           \* the partner the loop is at
    lead,              \* the lead the loop is at
    categorized_leads, \* generate_funnel: categorized_leads
    funnel             \* generate_funnel's FunnelMetrics and the dictionary it
                       \* returns

funnelVars == <<f_pc, partner, lead, categorized_leads, funnel>>

\* The variables each part leaves alone.
nonDashVars == <<clientVars, upsertVars, funnelVars>>
nonClientVars == <<dashVars, upsertVars, funnelVars>>
nonUpsertVars == <<dashVars, clientVars, funnelVars>>
nonFunnelVars == <<dashVars, clientVars, upsertVars>>
vars == <<dashVars, clientVars, upsertVars, funnelVars>>

\* No batch is being compared.
UpsertOff ==
    /\ u_pc = "off"
    /\ batch = <<>>
    /\ order = <<>>
    /\ once = <<>>
    /\ twice = <<>>
    /\ u_idx = 1

\* generate_funnel is not called.
FunnelOff ==
    /\ f_pc = "off"
    /\ partner = None
    /\ lead = <<>>
    /\ categorized_leads = <<>>
    /\ funnel = [funnel_stages |-> <<>>]

\* No CodaUpdater is used directly.
ClientOff ==
    /\ environ = [CODA_API_TOKEN |-> None, CODA_DOC_ID |-> None]
    /\ cpc = "off"
    /\ self = [api_token |-> None, doc_id |-> None, default_table_id |-> None]
    /\ call = [op |-> None]
    /\ requests = <<>>
    /\ tables = <<>>
    /\ c_page_token = 0
    /\ c_all_items = <<>>
    /\ after = None
    /\ c_table_id = None
    /\ c_idx = 1
    /\ c_count = 0
    /\ c_errors = <<>>
    /\ returned = None
    /\ raised = None

\* The state of an updater when it is called.
ProcInit ==
    /\ attempt = 1
    /\ pages = <<>>
    /\ page_token = 0
    /\ all_items = <<>>
    /\ table_id = "unresolved"
    /\ column_id = FALSE
    /\ startRows = {}
    /\ rows = {}
    /\ pendingDel = {}
    /\ pendingIns = 0
    /\ newVisible = 0
    /\ existing_rows = <<>>
    /\ idx = 1
    /\ retry = 0
    /\ pollEnd = "none"
    /\ batchLen = 0
    /\ log = <<>>
    /\ out = {}
    /\ result = "running"

Init ==
    /\ pc = "call"
    /\ tbl = 1
    /\ status = [t \in Tables |-> "pending"]
    /\ data = {}
    /\ ProcInit
    /\ ClientOff
    /\ UpsertOff
    /\ FunnelOff

\* Rows a row listing shows.
VisibleCount == Cardinality(rows) + newVisible

\* An exception leaves the updater and, nothing catching it, update_all.
Raise ==
    /\ pc' = "raised"
    /\ status' = [status EXCEPT ![tbl] = "raised"]

\* The updater returns value v after printing message m.
ReturnWith(v, m) ==
    /\ pc' = "ret"
    /\ result' = v
    /\ out' = out \cup {m}
    /\ status' = [status EXCEPT ![tbl] = IF m = "not_found" THEN "skipped" ELSE "returned"]

\* --------------------------------------------------- find_table_by_name
\* The updater calls find_table_by_name(table_name); the document's table
\* listing, and the way the remote pages it, is the remote's.
FindTableStart ==
    /\ pc = "call"
    /\ \E items \in Listings(TableName(tbl, attempt)) :
         \E pg \in Pagings(items) : pages' = pg
    /\ page_token' = 0
    /\ all_items' = <<>>
    /\ table_id' = "unresolved"
    /\ pc' = "list_tables"
    /\ UNCHANGED <<tbl, status, data, attempt, column_id, remoteVars,
                   existing_rows, idx, retry, pollEnd, batchLen, log,
                   out, result>>
    /\ UNCHANGED nonDashVars

\* The token the response to the request for page p carries: the next page,
\* 0 when the response has no nextPageToken.
NextPageToken(p) == IF p < Len(pages) THEN p ELSE 0

\* list_tables, one iteration of its loop: the request (carrying the token
\* of the previous response), raise_for_status, the items added, the token
\* read; after the last page find_table_by_name searches the items.
ListTablesGet ==
    /\ pc = "list_tables"
    /\ \E resp \in {"ok", "fail"} :
         IF resp = "fail"
         THEN /\ Raise
              /\ UNCHANGED <<page_token, all_items, table_id>>
         ELSE LET p     == page_token + 1
                  items == all_items \o pages[p]
                  token == NextPageToken(p)
              IN  /\ all_items' = items
                  /\ page_token' = token
                  /\ IF token # 0
                     THEN UNCHANGED <<pc, table_id>>
                     ELSE /\ table_id' = FindTableByName(items, TableName(tbl, attempt))
                          /\ pc' = "resolved"
                  /\ UNCHANGED status
    /\ UNCHANGED <<tbl, data, attempt, pages, column_id, remoteVars,
                   existing_rows, idx, retry, pollEnd, batchLen, log,
                   out, result>>
    /\ UNCHANGED nonDashVars

\* `if not table_id`: update_executive_summary_text tries its alternative
\* name once; otherwise the updater prints that the table is not found and
\* returns (False from the singleton updaters, None from the batch ones).
TableNotFound ==
    /\ pc = "resolved"
    /\ table_id = None
    /\ IF IsExecSummary(tbl) /\ attempt = 1
       THEN /\ attempt' = 2
            /\ pc' = "call"
            /\ pages' = <<>>
            /\ all_items' = <<>>
            /\ table_id' = "unresolved"
            /\ UNCHANGED <<status, out, result>>
       ELSE /\ ReturnWith(IF IsSingleton(tbl) THEN "False" ELSE None, "not_found")
            /\ UNCHANGED <<attempt, pages, all_items, table_id>>
    /\ UNCHANGED <<tbl, data, page_token, column_id, remoteVars, existing_rows,
                   idx, retry, pollEnd, batchLen, log>>
    /\ UNCHANGED nonDashVars

\* The table is found.  A singleton updater goes on to the columns request;
\* the table holds the rows the remote has in it.  A batch updater starts
\* its loop over the rows it was given.
TableFound ==
    /\ pc = "resolved"
    /\ table_id # None
    /\ IF IsSingleton(tbl)
       THEN /\ \E n \in 0..MaxRows :
                 /\ rows' = 1..n
                 /\ startRows' = 1..n
            /\ pc' = "columns"
            /\ UNCHANGED batchLen
       ELSE /\ IF UpdateOrder[tbl] = "funnel_summary"
               THEN batchLen' = SummaryRows
               ELSE \E n \in 0..MaxBatch : batchLen' = n
            /\ pc' = "upsert"
            /\ UNCHANGED <<rows, startRows>>
    /\ idx' = 1
    /\ UNCHANGED <<tbl, status, data, lookupVars, column_id, pendingDel,
                   pendingIns, newVisible, existing_rows, retry, pollEnd, log, out, result>>
    /\ UNCHANGED nonDashVars

\* ------------------------------------------------ singleton-replace updaters
\* update_last_updated_timestamp and update_executive_summary_text.

\* The columns request: a column id is used when the answer is 200 with at
\* least one column; an empty answer, another status or an exception leaves
\* the column name.
GetColumns ==
    /\ pc = "columns"
    /\ \E resp \in {"columns", "empty", "status", "exc"} :
         column_id' = (resp = "columns")
    /\ pc' = "list_rows"
    /\ UNCHANGED <<tbl, status, data, lookupVars, remoteVars, existing_rows,
                   idx, retry, pollEnd, batchLen, log, out, result>>
    /\ UNCHANGED nonDashVars

\* What list_rows returns of a table: list_rows sends one request and
\* returns its answer, so the first k rows when the remote pages the listing.
ListRowsItems(k) == SubSeq(RowSeq(rows), 1, k)

\* The page lengths the remote may answer with: the whole listing, or a
\* shorter first page.
PageLengths == IF rows = {} THEN {0} ELSE 1..Cardinality(rows)

\* `try: existing_rows = list_rows(...)['items'] except: existing_rows = []`
\* and the `if existing_rows:` that follows.
ListExistingRows ==
    /\ pc = "list_rows"
    /\ \E resp \in {"ok", "fail"} :
         IF resp = "fail"
         THEN existing_rows' = <<>>
         ELSE \E k \in PageLengths : existing_rows' = ListRowsItems(k)
    /\ pc' = IF existing_rows' # <<>> THEN "delete" ELSE "insert"
    /\ idx' = 1
    /\ UNCHANGED <<tbl, status, data, lookupVars, column_id, remoteVars,
                   retry, pollEnd, batchLen, log, out, result>>
    /\ UNCHANGED nonDashVars

\* A delete loop that stops after its first request.
DeleteLoopBreaks(i, ids) == i > 1

\* `for row_id in all_row_ids`: the loop is over after the last id.
DeleteLoopDone(i, ids) == i > Len(ids)

\* One iteration of the delete loop: the request for existing_rows[idx]; an
\* exception is caught, a status is not acted on.  The remote applies an
\* accepted delete later.  After the loop update_last_updated_timestamp
\* sleeps and inserts; update_executive_summary_text polls the row count.
DeleteRow ==
    /\ pc = "delete"
    /\ \E resp \in {"ok", "status", "exc"} :
         /\ log' = Append(log, [op |-> "delete", row |-> existing_rows[idx],
                                ok |-> (resp = "ok")])
         /\ pendingDel' = IF resp = "ok"
                          THEN pendingDel \cup {existing_rows[idx]}
                          ELSE pendingDel
    /\ idx' = idx + 1
    /\ pc' = IF ~DeleteLoopDone(idx + 1, existing_rows) THEN "delete"
             ELSE IF IsExecSummary(tbl) THEN "poll" ELSE "insert"
    /\ retry' = 0
    /\ UNCHANGED <<tbl, status, data, lookupVars, column_id, startRows, rows,
                   pendingIns, newVisible, existing_rows, pollEnd, batchLen,
                   out, result>>
    /\ UNCHANGED nonDashVars

\* A poll loop without its bound.
PollForever(made, max_retries) == TRUE

\* `for retry in range(max_retries)`: another iteration follows the one
\* that made the made-th check.
PollAgain(made, max_retries) == made < max_retries

\* update_executive_summary_text, one iteration of the delete-confirmation
\* poll: list_rows; zero rows breaks, an exception breaks, otherwise the
\* next iteration, if any.
PollDeleted ==
    /\ pc = "poll"
    /\ \E resp \in {"ok", "fail"} :
         IF resp = "fail"
         THEN /\ pollEnd' = "error"
              /\ pc' = "final_check"
              /\ UNCHANGED retry
         ELSE /\ retry' = retry + 1
              /\ IF VisibleCount = 0
                 THEN /\ pollEnd' = "zero"
                      /\ pc' = "final_check"
                 ELSE IF PollAgain(retry + 1, DeleteMaxRetries)
                 THEN UNCHANGED <<pollEnd, pc>>
                 ELSE /\ pollEnd' = "exhausted"
                      /\ pc' = "final_check"
    /\ UNCHANGED <<tbl, status, data, lookupVars, column_id, remoteVars,
                   existing_rows, idx, batchLen, log, out, result>>
    /\ UNCHANGED nonDashVars

\* update_executive_summary_text, `final_check = list_rows(...)`, outside
\* any try: an exception leaves the updater; rows still there are a warning.
FinalCheck ==
    /\ pc = "final_check"
    /\ \E resp \in {"ok", "fail"} :
         IF resp = "fail"
         THEN /\ Raise
              /\ UNCHANGED out
         ELSE /\ out' = IF VisibleCount > 0 THEN out \cup {"warning"} ELSE out
              /\ pc' = "insert"
              /\ UNCHANGED status
    /\ UNCHANGED <<tbl, data, lookupVars, column_id, remoteVars, existing_rows,
                   idx, retry, pollEnd, batchLen, log, result>>
    /\ UNCHANGED nonDashVars

\* The insert request.  "ok" is status 200 or 202; "status" a 4xx or 5xx
\* status; "other" any other status; "exc" an exception of the request.
\* update_executive_summary_text: ok starts the visibility poll; a 4xx/5xx
\* is raised by raise_for_status and, like an exception, caught: the
\* fallback loop; any other status falls through to `return False`.
\* update_last_updated_timestamp: ok returns True; an exception is caught:
\* one more request; any status falls through to `return False`.
Insert ==
    /\ pc = "insert"
    /\ \E resp \in {"ok", "other", "status", "exc"} :
         /\ log' = Append(log, [op |-> "insert", row |-> 0, ok |-> (resp = "ok")])
         /\ pendingIns' = IF resp = "ok" THEN pendingIns + 1 ELSE pendingIns
         /\ IF IsExecSummary(tbl)
            THEN CASE resp = "ok" ->
                        /\ pc' = "verify"
                        /\ UNCHANGED <<status, out, result>>
                   [] resp = "other" -> ReturnWith("False", "error")
                   [] OTHER ->
                        /\ pc' = "fallback"
                        /\ UNCHANGED <<status, out, result>>
            ELSE CASE resp = "ok" -> ReturnWith("True", "success")
                   [] resp = "exc" ->
                        /\ pc' = "fallback"
                        /\ UNCHANGED <<status, out, result>>
                   [] OTHER -> ReturnWith("False", "error")
    /\ idx' = 1
    /\ retry' = 0
    /\ UNCHANGED <<tbl, data, lookupVars, column_id, startRows, rows,
                   pendingDel, newVisible, existing_rows, pollEnd, batchLen>>
    /\ UNCHANGED nonDashVars

\* update_executive_summary_text, one iteration of the visibility poll,
\* inside the try of the insert: list_rows; an exception is caught by the
\* `except` that starts the fallback loop; one row or more returns True;
\* the loop over, the updater returns True as well.
VerifyInsert ==
    /\ pc = "verify"
    /\ \E resp \in {"ok", "fail"} :
         IF resp = "fail"
         THEN /\ pc' = "fallback"
              /\ UNCHANGED <<retry, status, out, result>>
         ELSE /\ retry' = retry + 1
              /\ IF VisibleCount >= 1
                 THEN ReturnWith("True", "success")
                 ELSE IF PollAgain(retry + 1, InsertMaxRetries)
                 THEN UNCHANGED <<pc, status, out, result>>
                 ELSE ReturnWith("True", "not_visible")
    /\ idx' = 1
    /\ UNCHANGED <<tbl, data, lookupVars, column_id, remoteVars, existing_rows,
                   pollEnd, batchLen, log>>
    /\ UNCHANGED nonDashVars

\* The identifiers the fallback tries: update_executive_summary_text goes
\* through [column_id, column_name, "Summary Text", "Text", "Content",
\* "Summary", "Name"] skipping a column_id of None;
\* update_last_updated_timestamp tries column_name.
FallbackAttempts ==
    IF IsExecSummary(tbl)
    THEN (IF column_id THEN 2 ELSE 1) + FallbackNames
    ELSE 1

\* One fallback insert request: 200 or 202 returns True; any other answer
\* or an exception goes on to the next identifier; none left, the updater
\* prints its error and returns False.
FallbackInsert ==
    /\ pc = "fallback"
    /\ \E resp \in {"ok", "status", "exc"} :
         /\ log' = Append(log, [op |-> "insert", row |-> 0, ok |-> (resp = "ok")])
         /\ pendingIns' = IF resp = "ok" THEN pendingIns + 1 ELSE pendingIns
         /\ IF resp = "ok"
            THEN ReturnWith("True", "success")
            ELSE IF idx < FallbackAttempts
            THEN UNCHANGED <<pc, status, out, result>>
            ELSE ReturnWith("False", "error")
    /\ idx' = idx + 1
    /\ UNCHANGED <<tbl, data, lookupVars, column_id, startRows, rows,
                   pendingDel, newVisible, existing_rows, retry, pollEnd,
                   batchLen>>
    /\ UNCHANGED nonDashVars

\* ------------------------------------------------------------- the remote
\* The remote applies a delete it accepted.
RemoteApplyDelete ==
    /\ \E r \in pendingDel :
         /\ pendingDel' = pendingDel \ {r}
         /\ rows' = rows \ {r}
    /\ UNCHANGED <<pc, tbl, status, data, lookupVars, column_id, startRows,
                   pendingIns, newVisible, existing_rows, idx, retry, pollEnd,
                   batchLen, log, out, result>>
    /\ UNCHANGED nonDashVars

\* The remote makes a row it accepted visible.
RemoteApplyInsert ==
    /\ pendingIns > 0
    /\ pendingIns' = pendingIns - 1
    /\ newVisible' = newVisible + 1
    /\ UNCHANGED <<pc, tbl, status, data, lookupVars, column_id, startRows,
                   rows, pendingDel, existing_rows, idx, retry, pollEnd,
                   batchLen, log, out, result>>
    /\ UNCHANGED nonDashVars

\* An upsert failure that leaves the loop.
BatchErrorRaises(resp) == resp = "fail"

\* `except Exception as e: print(...)` around each upsert_row of a batch
\* updater: no answer of the remote leaves the loop.
BatchErrorLeaves(resp) == FALSE

\* ------------------------------------------------------- batch updaters
\* One iteration of `for row in rows: try: upsert_row(...) except: print`:
\* the upsert request for row idx with the table's key columns.
Upsert ==
    /\ pc = "upsert"
    /\ idx <= batchLen
    /\ \E resp \in {"ok", "fail"} :
         /\ log' = Append(log, [op |-> "upsert", row |-> idx, ok |-> (resp = "ok"),
                                keys |-> KeyColumns(tbl)])
         /\ IF BatchErrorLeaves(resp)
            THEN /\ Raise
                 /\ UNCHANGED <<idx, out>>
            ELSE /\ out' = IF resp = "ok" THEN out ELSE out \cup {"row_error"}
                 /\ idx' = idx + 1
                 /\ UNCHANGED <<pc, status>>
    /\ UNCHANGED <<tbl, data, lookupVars, column_id, remoteVars,
                   existing_rows, retry, pollEnd, batchLen, result>>
    /\ UNCHANGED nonDashVars

\* The loop is over: the updater prints its success line and returns.
BatchDone ==
    /\ pc = "upsert"
    /\ idx > batchLen
    /\ ReturnWith(None, "success")
    /\ UNCHANGED <<tbl, data, lookupVars, column_id, remoteVars, existing_rows,
                   idx, retry, pollEnd, batchLen, log>>
    /\ UNCHANGED nonDashVars

\* ------------------------------------------------------------ update_all
\* The state of the next updater's call.
ProcReset ==
    /\ attempt' = 1
    /\ pages' = <<>>
    /\ page_token' = 0
    /\ all_items' = <<>>
    /\ table_id' = "unresolved"
    /\ column_id' = FALSE
    /\ startRows' = {}
    /\ rows' = {}
    /\ pendingDel' = {}
    /\ pendingIns' = 0
    /\ newVisible' = 0
    /\ existing_rows' = <<>>
    /\ idx' = 1
    /\ retry' = 0
    /\ pollEnd' = "none"
    /\ batchLen' = 0
    /\ log' = <<>>
    /\ out' = {}
    /\ result' = "running"

\* An updater has returned: update_all goes to its next statement, the call
\* of the next updater or the `if "<key>" in data` before it.
Return ==
    /\ pc = "ret"
    /\ IF tbl = NumTables
       THEN /\ pc' = "done"
            /\ UNCHANGED <<tbl, procVars>>
       ELSE /\ tbl' = tbl + 1
            /\ pc' = IF DataKey(tbl + 1) = None \/ DataKey(tbl + 1) \in data
                     THEN "call" ELSE "test"
            /\ ProcReset
    /\ UNCHANGED <<status, data>>
    /\ UNCHANGED nonDashVars

\* The tables after t that another key of `data` guards.
LaterTables(t) == {u \in Tables : u > t /\ DataKey(u) # DataKey(t)}

\* `if "<key>" in data`: the key is in the data handed to update_all or it
\* is not; without it the updaters it guards are not called.
TestData ==
    /\ pc = "test"
    /\ \E present \in BOOLEAN :
         IF present
         THEN /\ data' = data \cup {DataKey(tbl)}
              /\ pc' = "call"
              /\ UNCHANGED <<tbl, status>>
         ELSE /\ status' = [u \in Tables |->
                              IF DataKey(u) = DataKey(tbl) THEN "nodata" ELSE status[u]]
              /\ IF LaterTables(tbl) = {}
                 THEN /\ pc' = "done"
                      /\ UNCHANGED tbl
                 ELSE /\ tbl' = CHOOSE u \in LaterTables(tbl) :
                                   \A w \in LaterTables(tbl) : u <= w
                      /\ pc' = "test"
              /\ UNCHANGED data
    /\ UNCHANGED procVars
    /\ UNCHANGED nonDashVars

Next ==
    \/ FindTableStart
    \/ ListTablesGet
    \/ TableNotFound
    \/ TableFound
    \/ GetColumns
    \/ ListExistingRows
    \/ DeleteRow
    \/ PollDeleted
    \/ FinalCheck
    \/ Insert
    \/ VerifyInsert
    \/ FallbackInsert
    \/ RemoteApplyDelete
    \/ RemoteApplyInsert
    \/ Upsert
    \/ BatchDone
    \/ Return
    \/ TestData

Spec == Init /\ [][Next]_vars

\* ------------------------------------------------------------------ claims
InsertCalls == {i \in DOMAIN log : log[i].op = "insert"}
DeleteCalls == {i \in DOMAIN log : log[i].op = "delete"}
AcceptedInserts == {i \in InsertCalls : log[i].ok}
TableResolved == table_id \notin {None, "unresolved"}

\* C1: in a singleton-replace run every delete request of the run (one per
\* listed row) is sent before any insert request, and none after it.
C1_DeletesBeforeInsert ==
    IsSingleton(tbl) =>
        \A i \in InsertCalls :
            /\ \A j \in DeleteCalls : j < i
            /\ \A k \in DOMAIN existing_rows :
                 \E j \in DeleteCalls : j < i /\ log[j].row = existing_rows[k]

\* C1 witness: a summary-text run that listed two rows and sent its insert.
C1_Witness ==
    /\ IsExecSummary(tbl)
    /\ pc = "ret"
    /\ Len(existing_rows) = 2
    /\ AcceptedInserts # {}

\* C2 (as claimed): whatever the remote answers, at most one insert request
\* of a singleton-replace run is accepted by the remote.
C2_AtMostOneAcceptedInsert ==
    IsSingleton(tbl) => Cardinality(AcceptedInserts) <= 1

\* The row listing of the run was answered (a failed listing leaves
\* existing_rows empty while the table holds rows).
RowListingAnswered == startRows = {} \/ existing_rows # <<>>

\* C3 (as claimed): after a run whose row listing was answered and whose
\* delete requests and insert request were all accepted, once the remote
\* has applied everything it accepted the table holds exactly one row, the
\* inserted one.
C3_ExactlyOneRowAfterReplace ==
    ( /\ IsSingleton(tbl)
      /\ pc = "ret"
      /\ RowListingAnswered
      /\ InsertCalls # {}
      /\ \A i \in DOMAIN log : log[i].ok
      /\ pendingDel = {}
      /\ pendingIns = 0 )
    => (rows = {} /\ newVisible = 1)

\* C4 (as claimed): once the delete phase of a singleton-replace run whose
\* row listing was answered is over, a delete request has been sent for
\* every row the table held when the run started, however the remote paged
\* the listing.
C4_DeleteSentForEveryRow ==
    ( /\ IsSingleton(tbl)
      /\ TableResolved
      /\ RowListingAnswered
      /\ pc \in {"poll", "final_check", "insert", "verify", "fallback", "ret"} )
    => \A r \in startRows : \E j \in DeleteCalls : log[j].row = r

\* C5 (as claimed): in both singleton-replace updaters, when rows were
\* deleted the insert is sent only after a row-count poll saw zero rows or
\* used up its retries.
C5_InsertOnlyAfterPoll ==
    (IsSingleton(tbl) /\ DeleteCalls # {} /\ InsertCalls # {})
    => pollEnd \in {"zero", "exhausted"}

\* C6 (as claimed): once an insert was accepted the run returns True,
\* whatever happens afterwards; it neither returns False nor raises.
C6_AcceptedInsertReturnsTrue ==
    (IsSingleton(tbl) /\ AcceptedInserts # {})
    => (pc # "raised" /\ (pc = "ret" => result = "True"))

\* C7 (as claimed): when the delete-confirmation poll used up its retries
\* with rows still there, the run does not raise, still sends the insert,
\* and returns True if an insert was accepted.
C7_PollExhaustedIsSoft ==
    pollEnd = "exhausted"
    => /\ pc # "raised"
       /\ pc = "ret" => InsertCalls # {}
       /\ (pc = "ret" /\ AcceptedInserts # {}) => result = "True"

\* The positions of a singleton-replace run at which a request is due.
RunPhases ==
    {"columns", "list_rows", "delete", "poll", "final_check", "insert",
     "verify", "fallback"}

\* The most requests a singleton-replace run may still send from where it
\* is: the rest of the running loop and all of the phases after it.
AfterInsert == InsertMaxRetries + FallbackAttempts
AfterDeletes == DeleteMaxRetries + 2 + AfterInsert
Remaining ==
    CASE pc = "fallback" -> FallbackAttempts - idx + 1
      [] pc = "verify" -> (InsertMaxRetries - retry) + FallbackAttempts
      [] pc = "insert" -> 1 + AfterInsert
      [] pc = "final_check" -> 2 + AfterInsert
      [] pc = "poll" -> (DeleteMaxRetries - retry) + 2 + AfterInsert
      [] pc = "delete" -> (Len(existing_rows) - idx + 1) + AfterDeletes
      [] pc = "list_rows" -> 1 + Cardinality(rows) + AfterDeletes
      [] pc = "columns" -> 3 + Cardinality(rows) + AfterDeletes
      [] OTHER -> 0

C9_UpdateAllNeverAborts ==
    /\ pc # "raised"
    /\ pc = "done" => \A t \in Tables : status[t] # "pending"

\* The name looked up is in no page of the document's table listing.
WantedAbsent ==
    TableName(tbl, attempt) \notin {it.name : it \in Range(Flatten(pages))}

DashOff ==
    /\ pc = "off"
    /\ tbl = 1
    /\ status = [t \in Tables |-> "pending"]
    /\ data = {}
    /\ ProcInit

\* A test that every value passes.
Anything(x) == TRUE

\* Python's truth value of an optional string: None and "" are false.
Truthy(x) == x \notin {None, ""}

\* A choice that prefers the second value.
PreferSecond(a, b) == IF Truthy(b) THEN b ELSE a

\* Python's `a or b` on optional strings.
Or(a, b) == IF Truthy(a) THEN a ELSE b

\* A locator is a sequence of characters.  [A-Za-z0-9], among the
\* characters used here; "/", "_", "#", "-", ":" and "." are outside it.
Alnum ==
    {"A", "B", "C", "D", "T", "U", "a", "b", "c", "d", "e", "h", "l", "m", "n",
     "o", "p", "s", "t", "x", "1", "2"}

\* The string of a sequence of characters.
RECURSIVE Join(_)
Join(chars) == IF chars = <<>> THEN "" ELSE Head(chars) \o Join(Tail(chars))

\* The positions at which the literal `/d/` is found.
DocStarts(url) ==
    {p \in 1..(Len(url) - 2) : url[p] = "/" /\ url[p + 1] = "d" /\ url[p + 2] = "/"}

\* The end of the longest run of [A-Za-z0-9] from position g (g - 1 when
\* there is none).
AlnumEnd(url, g) ==
    CHOOSE h \in (g - 1)..Len(url) :
        /\ \A j \in g..h : url[j] \in Alnum
        /\ h = Len(url) \/ url[h + 1] \notin Alnum

\* The end of the longest run of [^/] after the `/d/` found at p.
SegmentEnd(url, p) ==
    CHOOSE e \in (p + 2)..Len(url) :
        /\ \A j \in (p + 3)..e : url[j] # "/"
        /\ e = Len(url) \/ url[e + 1] = "/"

\* `[^/]+_d?([A-Za-z0-9]+)` followed by `/`, after the `/d/` at p: the ways
\* <<u, k>> to end `[^/]+` at u, before a `_`, and to take k characters
\* for `d?`, such that the rest of the segment, up to its end e, is the
\* group.
SplitsBeforeSlash(url, p, e) ==
    {s \in ((p + 3)..(e - 1)) \X {0, 1} :
        /\ url[s[1] + 1] = "_"
        /\ s[2] = 1 => (s[1] + 2 <= e /\ url[s[1] + 2] = "d")
        /\ s[1] + 2 + s[2] <= e
        /\ \A j \in (s[1] + 2 + s[2])..e : url[j] \in Alnum}

\* `[^/]+_d?([A-Za-z0-9]+)` with nothing required after it: the group is
\* the run of [A-Za-z0-9] that follows and has one character at least.
SplitsAnywhere(url, p, e) ==
    {s \in ((p + 3)..(e - 1)) \X {0, 1} :
        /\ url[s[1] + 1] = "_"
        /\ s[2] = 1 => (s[1] + 2 <= Len(url) /\ url[s[1] + 2] = "d")
        /\ s[1] + 2 + s[2] <= Len(url)
        /\ url[s[1] + 2 + s[2]] \in Alnum}

\* The way the matcher finds first: `[^/]+` is greedy (the longest first),
\* and so is `d?` (the character taken first).
FirstSplit(splits) ==
    CHOOSE s \in splits :
        \A r \in splits : s[1] > r[1] \/ (s[1] = r[1] /\ s[2] >= r[2])

\* `(?:[^#]+_)?([A-Za-z0-9]+)` after the `/` at e + 1: the positions where
\* the second group may start, right after the `/` or after a `_` that a
\* run of [^#] of one character at least precedes.
TableStarts(url, e) ==
    {t \in (e + 2)..Len(url) :
        /\ url[t] \in Alnum
        /\ \/ t = e + 2
           \/ /\ t >= e + 4
              /\ url[t - 1] = "_"
              /\ \A j \in (e + 2)..(t - 2) : url[j] # "#"}

Lowest(S) == CHOOSE x \in S : \A y \in S : x <= y
Highest(S) == CHOOSE x \in S : \A y \in S : x >= y

\* re.search(r'/d/[^/]+_d?([A-Za-z0-9]+)/(?:[^#]+_)?([A-Za-z0-9]+)', url):
\* the leftmost `/d/` at which the pattern matches, and there the match the
\* backtracking finds first (`[^#]+` greedy: the last `_` possible).
SearchDocAndTable(url) ==
    LET starts == {p \in DocStarts(url) :
                     /\ SplitsBeforeSlash(url, p, SegmentEnd(url, p)) # {}
                     /\ SegmentEnd(url, p) < Len(url)
                     /\ TableStarts(url, SegmentEnd(url, p)) # {}}
    IN  IF starts = {} THEN [match |-> FALSE]
        ELSE LET e == SegmentEnd(url, Lowest(starts))
                 s == FirstSplit(SplitsBeforeSlash(url, Lowest(starts), e))
                 t == Highest(TableStarts(url, e))
             IN  [match |-> TRUE,
                  group1 |-> SubSeq(url, s[1] + 2 + s[2], e),
                  group2 |-> SubSeq(url, t, AlnumEnd(url, t))]

\* re.search(r'/d/[^/]+_d?([A-Za-z0-9]+)', url).
SearchDoc(url) ==
    LET starts == {p \in DocStarts(url) :
                     SplitsAnywhere(url, p, SegmentEnd(url, p)) # {}}
    IN  IF starts = {} THEN [match |-> FALSE]
        ELSE LET e == SegmentEnd(url, Lowest(starts))
                 s == FirstSplit(SplitsAnywhere(url, Lowest(starts), e))
             IN  [match |-> TRUE,
                  group1 |-> SubSeq(url, s[1] + 2 + s[2],
                                    AlnumEnd(url, s[1] + 2 + s[2]))]

\* parse_coda_url: the (doc_id, table_id) returned, or the ValueError.
ParseCodaUrl(url) ==
    IF SearchDocAndTable(url).match
    THEN [ok |-> TRUE, doc_id |-> Join(SearchDocAndTable(url).group1),
          table_id |-> IF SearchDocAndTable(url).group2 # <<>>
                       THEN Join(SearchDocAndTable(url).group2) ELSE None]
    ELSE IF SearchDoc(url).match
    THEN [ok |-> TRUE, doc_id |-> Join(SearchDoc(url).group1), table_id |-> None]
    ELSE [ok |-> FALSE, doc_id |-> None, table_id |-> None]

\* The document locators given as doc_url: none (None or ""), "/x" that
\* parse_coda_url cannot parse, "/d/Doc_dU1" naming a document, and
\* "/d/Doc_dU1/Table_T1" naming a document and a table.
DocUrls ==
    {<<>>, <<"/", "x">>,
     <<"/", "d", "/", "D", "o", "c", "_", "d", "U", "1">>,
     <<"/", "d", "/", "D", "o", "c", "_", "d", "U", "1", "/",
       "T", "a", "b", "l", "e", "_", "T", "1">>}

\* Python's truth value of an optional locator.
UrlGiven(url) == url # <<>>

\* The operations of CodaUpdater.
Operations ==
    {"list_tables", "find_table_by_name", "list_rows", "upsert_row",
     "delete_rows", "update_partner_metrics", "update_partner_status",
     "update_accounts_table"}

\* The table name an operation looks up: its table_name argument or default.
WantedName(op) ==
    CASE op = "update_partner_status" -> "Partner Status"
      [] op = "update_accounts_table" -> "Pyxis Accounts"
      [] OTHER -> "Partner Metrics"

\* The calls of an operation: doc_id is optional everywhere, table_id is
\* optional in update_partner_metrics; rows are the row ids given to
\* delete_rows or the account ids of the accounts given to
\* update_accounts_table; convertible is false when float() or int() of a
\* field of some account raises.
Arguments(op) ==
    [op : {op},
     doc_id : {None, "D1"},
     table_id : IF op = "update_partner_metrics" THEN {None, "grid-1"}
                ELSE IF op \in {"list_rows", "upsert_row", "delete_rows"}
                THEN {"grid-1"} ELSE {None},
     rows : IF op = "delete_rows" THEN {RowSeq(1..n) : n \in 0..MaxRows}
            ELSE IF op = "update_accounts_table"
            THEN {RowSeq(1..n) : n \in 0..MaxAccounts}
            ELSE {<<>>},
     convertible : IF op = "update_accounts_table" THEN BOOLEAN ELSE {TRUE}]

\* The ways the remote pages a table listing: up to three pages, any of them
\* possibly empty.
MorePagings(listed) ==
    Pagings(listed) \cup
    {<<SubSeq(listed, 1, a), SubSeq(listed, a + 1, b), SubSeq(listed, b + 1, Len(listed))>> :
        <<a, b>> \in {c \in (0..Len(listed)) \X (0..Len(listed)) : c[1] <= c[2]}}

\* The environment and the constructor's arguments.
ClientInit ==
    /\ DashOff
    /\ UpsertOff
    /\ FunnelOff
    /\ environ \in [CODA_API_TOKEN : {None, "env-token"}, CODA_DOC_ID : {None, "E1"}]
    /\ cpc = "new"
    /\ self = [api_token |-> None, doc_id |-> None, default_table_id |-> None]
    /\ call \in [op : {"__init__"}, api_token : {None, "", "token"},
                 doc_id : {None, "", "D0"}, doc_url : DocUrls]
    /\ requests = <<>>
    /\ tables = <<>>
    /\ c_page_token = 0
    /\ c_all_items = <<>>
    /\ after = None
    /\ c_table_id = None
    /\ c_idx = 1
    /\ c_count = 0
    /\ c_errors = <<>>
    /\ returned = None
    /\ raised = None

\* An exception leaves the operation.
ClientRaise(e) ==
    /\ cpc' = "raised"
    /\ raised' = e

\* CodaUpdater.__init__.
Construct ==
    /\ cpc = "new"
    /\ LET parse == UrlGiven(call.doc_url) /\ ~Truthy(call.doc_id)
           url == ParseCodaUrl(call.doc_url)
           doc_id == IF parse THEN url.doc_id ELSE call.doc_id
           api_token == Or(call.api_token, environ.CODA_API_TOKEN)
       IN  IF parse /\ ~url.ok
           THEN /\ ClientRaise("ValueError: Could not parse Coda URL")
                /\ self' = [self EXCEPT !.api_token = api_token]
           ELSE /\ self' = [api_token |-> api_token,
                            doc_id |-> Or(doc_id, environ.CODA_DOC_ID),
                            default_table_id |->
                                IF parse /\ Truthy(url.table_id)
                                THEN url.table_id ELSE None]
                /\ IF ~Truthy(api_token)
                   THEN ClientRaise("ValueError: Coda API token required")
                   ELSE cpc' = "ready" /\ UNCHANGED raised
    /\ UNCHANGED <<environ, call, requests, tables, c_page_token, c_all_items,
                   after, c_table_id, c_idx, c_count, c_errors, returned>>
    /\ UNCHANGED nonClientVars

\* main of update_coda_dashboard_daily.py, from the parsed command line to
\* the call of update_all: `call` holds --coda-token, --coda-doc-id and
\* --coda-doc-url; parser.error prints and exits.
Main ==
    /\ cpc = "new"
    /\ LET api_token == Or(call.api_token, environ.CODA_API_TOKEN)
           parse == UrlGiven(call.doc_url) /\ ~Truthy(call.doc_id)
           url == ParseCodaUrl(call.doc_url)
           doc_id == Or(IF parse THEN url.doc_id ELSE call.doc_id,
                        environ.CODA_DOC_ID)
       IN  IF ~Truthy(api_token)
           THEN /\ cpc' = "exited"
                /\ raised' = "parser.error: Coda API token required"
                /\ UNCHANGED self
           ELSE IF parse /\ ~url.ok
           THEN /\ ClientRaise("ValueError: Could not parse Coda URL")
                /\ UNCHANGED self
           ELSE IF ~Truthy(doc_id)
           THEN /\ cpc' = "exited"
                /\ raised' = "parser.error: Coda document ID required"
                /\ UNCHANGED self
           ELSE /\ cpc' = "update_all"
                /\ self' = [api_token |-> api_token, doc_id |-> doc_id,
                            default_table_id |-> None]
                /\ UNCHANGED raised
    /\ UNCHANGED <<environ, call, requests, tables, c_page_token, c_all_items,
                   after, c_table_id, c_idx, c_count, c_errors, returned>>
    /\ UNCHANGED nonClientVars

\* The call of list_tables by an operation: the remote's listing, no token,
\* no items.
StartListTables(op, then) ==
    /\ cpc' = "list_tables"
    /\ after' = then
    /\ \E listed \in Listings(WantedName(op)) :
         \E pg \in (IF op = "list_tables" THEN MorePagings(listed)
                     ELSE Pagings(listed)) : tables' = pg
    /\ c_page_token' = 0
    /\ c_all_items' = <<>>

\* An operation is called: `doc_id = doc_id or self.doc_id; if not doc_id:
\* raise ValueError`, then its statements up to its first request.
Call ==
    /\ cpc = "ready"
    /\ \E op \in Operations : \E c \in Arguments(op) :
         /\ call' = c
         /\ IF ~Truthy(Or(c.doc_id, self.doc_id))
            THEN /\ ClientRaise("ValueError: Document ID required")
                 /\ UNCHANGED <<tables, c_page_token, c_all_items, after,
                                c_table_id, returned>>
            ELSE CASE op = "list_tables" ->
                        /\ StartListTables(op, "return")
                        /\ UNCHANGED <<c_table_id, returned, raised>>
                   [] op \in {"find_table_by_name", "update_partner_status",
                              "update_accounts_table"} ->
                        /\ StartListTables(op, "find")
                        /\ UNCHANGED <<c_table_id, returned, raised>>
                   [] op = "update_partner_metrics" ->
                        LET given == Or(c.table_id, self.default_table_id)
                        IN  IF Truthy(given)
                            THEN /\ cpc' = "upsert_row"
                                 /\ c_table_id' = given
                                 /\ UNCHANGED <<tables, c_page_token, c_all_items,
                                                after, returned, raised>>
                            ELSE /\ StartListTables(op, "find")
                                 /\ UNCHANGED <<c_table_id, returned, raised>>
                   [] op \in {"list_rows", "upsert_row"} ->
                        /\ cpc' = op
                        /\ c_table_id' = c.table_id
                        /\ UNCHANGED <<tables, c_page_token, c_all_items, after,
                                       returned, raised>>
                   [] op = "delete_rows" ->
                        /\ c_table_id' = c.table_id
                        /\ IF c.rows = <<>>
                           THEN cpc' = "returned" /\ returned' = "True"
                           ELSE cpc' = "delete_rows" /\ UNCHANGED returned
                        /\ UNCHANGED <<tables, c_page_token, c_all_items, after,
                                       raised>>
    /\ UNCHANGED <<environ, self, requests, c_idx, c_count, c_errors>>
    /\ UNCHANGED nonClientVars

\* The answers of the remote to a request: a status code, or none ("exc":
\* requests raises, e.g. a connection error).
GetAnswers == {"200", "404", "exc"}
PostAnswers == {"200", "202", "404", "exc"}
DeleteAnswers == {"200", "202", "204", "404", "exc"}
\* The answers to the upserts of update_accounts_table.
AccountAnswers == {"202", "404", "exc"}

\* The remote has accepted the request.
Accepted(answer) == answer \in {"200", "202", "204"}

\* The exception of `requests.get/post` followed by raise_for_status, which
\* raises for a 4xx or 5xx status; None if neither raises.
RequestError(answer) ==
    IF answer = "exc" THEN "ConnectionError"
    ELSE IF answer = "404" THEN "HTTPError" ELSE None

\* The page the remote serves for a page token, and the token it returns
\* with it: 0 (none) with the last page.
ServedPage(token) == tables[token + 1]
ReturnedToken(token) == IF token + 1 < Len(tables) THEN token + 1 ELSE 0

\* What the caller of list_tables does with the items it returned.
AfterListTables(listed) ==
    LET op == call.op
        id == FindTableByName(listed, WantedName(op))
    IN  CASE after = "return" ->
               /\ cpc' = "returned"
               /\ returned' = listed
               /\ UNCHANGED <<after, c_table_id, raised, tables, c_page_token,
                              c_all_items>>
          [] after = "message" ->
               /\ ClientRaise("ValueError: Table not found")
               /\ UNCHANGED <<after, c_table_id, returned, tables, c_page_token,
                              c_all_items>>
          [] after = "find" /\ Truthy(id) ->
               /\ c_table_id' = id
               /\ IF op = "find_table_by_name"
                  THEN cpc' = "returned" /\ returned' = id /\ UNCHANGED raised
                  ELSE IF op = "update_accounts_table"
                  THEN IF call.convertible
                       THEN cpc' = "accounts" /\ UNCHANGED <<returned, raised>>
                       ELSE ClientRaise("TypeError") /\ UNCHANGED returned
                  ELSE cpc' = "upsert_row" /\ UNCHANGED <<returned, raised>>
               /\ UNCHANGED <<after, tables, c_page_token, c_all_items>>
          [] after = "find" /\ ~Truthy(id) ->
               IF op = "find_table_by_name"
               THEN /\ cpc' = "returned"
                    /\ returned' = None
                    /\ UNCHANGED <<after, c_table_id, raised, tables,
                                   c_page_token, c_all_items>>
               ELSE IF op = "update_partner_status"
               THEN /\ ClientRaise("ValueError: Table not found")
                    /\ UNCHANGED <<after, c_table_id, returned, tables,
                                   c_page_token, c_all_items>>
               ELSE \* the error message calls list_tables again
                    /\ cpc' = "list_tables"
                    /\ after' = "message"
                    /\ c_page_token' = 0
                    /\ c_all_items' = <<>>
                    /\ UNCHANGED <<c_table_id, returned, raised, tables>>

\* A request that never carries a token.
FirstPageAgain(token) == 0

\* `if page_token: params['pageToken'] = page_token`: the token the request
\* carries, 0 for none.
RequestToken(token) == token

\* list_tables, one turn of `while True`: the request, with the page token
\* if there is one, raise_for_status, the items added, the token read; the
\* loop ends when the response has no token.
ListTables ==
    /\ cpc = "list_tables"
    /\ \E answer \in GetAnswers :
         LET fails == RequestError(answer) # None
             sent == RequestToken(c_page_token)
             token == IF fails THEN 0 ELSE ReturnedToken(sent)
             got == IF fails THEN <<>> ELSE ServedPage(sent)
         IN  /\ requests' = Append(requests,
                    [method |-> "GET", pageToken |-> sent,
                     answer |-> answer, got |-> got, nextPageToken |-> token])
             /\ IF fails
                THEN /\ ClientRaise(RequestError(answer))
                     /\ UNCHANGED <<tables, c_page_token, c_all_items, after,
                                    c_table_id, returned>>
                ELSE IF token # 0
                THEN /\ c_page_token' = token
                     /\ c_all_items' = c_all_items \o got
                     /\ UNCHANGED <<cpc, tables, after, c_table_id, returned,
                                    raised>>
                ELSE AfterListTables(c_all_items \o got)
    /\ UNCHANGED <<environ, self, call, c_idx, c_count, c_errors>>
    /\ UNCHANGED nonClientVars

\* list_rows: one request, no pagination.
ListRows ==
    /\ cpc = "list_rows"
    /\ \E answer \in GetAnswers :
         /\ requests' = Append(requests, [method |-> "GET", answer |-> answer])
         /\ IF RequestError(answer) # None
            THEN ClientRaise(RequestError(answer)) /\ UNCHANGED returned
            ELSE cpc' = "returned" /\ returned' = "json" /\ UNCHANGED raised
    /\ UNCHANGED <<environ, self, call, tables, c_page_token, c_all_items,
                   after, c_table_id, c_idx, c_count, c_errors>>
    /\ UNCHANGED nonClientVars

\* The key columns update_partner_metrics, update_partner_status and
\* update_accounts_table declare; upsert_row is given them by its caller.
ClientKeyColumns(op) ==
    IF op = "update_accounts_table" THEN <<"Account ID">> ELSE <<"Partner">>

\* upsert_row, called directly or at the end of update_partner_metrics and
\* update_partner_status: one POST, raise_for_status.
UpsertRow ==
    /\ cpc = "upsert_row"
    /\ \E answer \in PostAnswers :
         /\ requests' = Append(requests,
                [method |-> "POST", table |-> c_table_id, row |-> 1,
                 answer |-> answer, keyColumns |-> ClientKeyColumns(call.op)])
         /\ IF RequestError(answer) # None
            THEN ClientRaise(RequestError(answer)) /\ UNCHANGED returned
            ELSE cpc' = "returned" /\ returned' = "json" /\ UNCHANGED raised
    /\ UNCHANGED <<environ, self, call, tables, c_page_token, c_all_items,
                   after, c_table_id, c_idx, c_count, c_errors>>
    /\ UNCHANGED nonClientVars

\* `if response.status_code in [200, 204]`.
CountsAsDeleted(answer) == answer \in {"200", "204"}

\* A result that does not look at the count.
AlwaysTrue(deleted_count, row_ids) == "True"

\* `return deleted_count == len(row_ids)`.
DeleteRowsResult(deleted_count, row_ids) ==
    IF deleted_count = Len(row_ids) THEN "True" ELSE "False"

\* delete_rows, one turn of `for row_id in row_ids`: the DELETE request in
\* its try/except, the count; after the last row id the result.
DeleteRows ==
    /\ cpc = "delete_rows"
    /\ \E answer \in DeleteAnswers :
         LET deleted_count == IF CountsAsDeleted(answer) THEN c_count + 1 ELSE c_count
         IN  /\ requests' = Append(requests,
                    [method |-> "DELETE", row |-> call.rows[c_idx],
                     answer |-> answer])
             /\ c_count' = deleted_count
             /\ IF c_idx = Len(call.rows)
                THEN /\ cpc' = "returned"
                     /\ returned' = DeleteRowsResult(deleted_count, call.rows)
                ELSE UNCHANGED <<cpc, returned>>
    /\ c_idx' = c_idx + 1
    /\ UNCHANGED <<environ, self, call, tables, c_page_token, c_all_items,
                   after, c_table_id, c_errors, raised>>
    /\ UNCHANGED nonClientVars

\* An except clause that lets the exception go.
Reraises(answer) == RequestError(answer) # None

\* `except Exception as e: errors.append(...)`: nothing leaves the loop.
RowErrorLeaves(answer) == FALSE

\* update_accounts_table, one turn of `for row_data in account_dicts`:
\* upsert_row in its try/except, the count or the error entry naming the
\* row's Account ID.
UpsertAccount ==
    /\ cpc = "accounts"
    /\ c_idx <= Len(call.rows)
    /\ \E answer \in AccountAnswers :
         /\ requests' = Append(requests,
                [method |-> "POST", row |-> call.rows[c_idx], answer |-> answer,
                 keyColumns |-> ClientKeyColumns(call.op)])
         /\ IF RequestError(answer) = None
            THEN /\ c_count' = c_count + 1
                 /\ UNCHANGED <<cpc, c_errors, raised>>
            ELSE IF RowErrorLeaves(answer)
            THEN /\ ClientRaise(RequestError(answer))
                 /\ UNCHANGED <<c_count, c_errors>>
            ELSE /\ c_errors' = Append(c_errors,
                        [key |-> call.rows[c_idx], error |-> RequestError(answer)])
                 /\ UNCHANGED <<cpc, c_count, raised>>
    /\ c_idx' = c_idx + 1
    /\ UNCHANGED <<environ, self, call, tables, c_page_token, c_all_items,
                   after, c_table_id, returned>>
    /\ UNCHANGED nonClientVars

\* update_accounts_table after the loop: the report.
AccountsReport ==
    /\ cpc = "accounts"
    /\ c_idx > Len(call.rows)
    /\ cpc' = "returned"
    /\ returned' = [updated |-> c_count, total |-> Len(call.rows),
                    errors |-> c_errors]
    /\ UNCHANGED <<environ, self, call, requests, tables, c_page_token,
                   c_all_items, after, c_table_id, c_idx, c_count, c_errors,
                   raised>>
    /\ UNCHANGED nonClientVars

ClientNext ==
    \/ Construct
    \/ Main
    \/ Call
    \/ ListTables
    \/ ListRows
    \/ UpsertRow
    \/ DeleteRows
    \/ UpsertAccount
    \/ AccountsReport

SpecClient == ClientInit /\ [][ClientNext]_vars

\* ----------------------------------------------------------------- claims
\* The constructor, or main, was given no token and found none in the
\* environment.
NoToken ==
    /\ call.op = "__init__"
    /\ call.api_token \in {None, ""}
    /\ environ.CODA_API_TOKEN \in {None, ""}

\* The operation called was given no document id and the object has none.
NoDocId ==
    /\ call.op \in Operations
    /\ call.doc_id \in {None, ""}
    /\ self.doc_id \in {None, ""}

\* C11: a missing API token or document id is an error raised before any
\* request is sent: the constructor (and main) given no token fails, an
\* operation called with no document id raises "Document ID required", in
\* both cases with no request sent; main reaches update_all only with both.
C11_MissingConfigFailsBeforeRequest ==
    /\ (cpc # "new" /\ NoToken) => (cpc \in {"raised", "exited"} /\ requests = <<>>)
    /\ NoDocId => /\ cpc = "raised"
                  /\ raised = "ValueError: Document ID required"
                  /\ requests = <<>>
    /\ cpc = "update_all" => /\ self.api_token \notin {None, ""}
                             /\ self.doc_id \notin {None, ""}
    /\ requests # <<>> => self.api_token \notin {None, ""}

\* An operation other than list_tables has failed for want of a document id,
\* on an object constructed with a token.
C11_Witness ==
    /\ NoDocId
    /\ call.op = "delete_rows"
    /\ call.rows # <<>>
    /\ cpc = "raised"
    /\ self.api_token = "env-token"
    /\ requests = <<>>

\* The requests delete_rows has sent are the deletes of the first n row ids
\* it was given, in order.
DeletesSent(n) ==
    /\ Len(requests) = n
    /\ \A k \in 1..n : /\ requests[k].method = "DELETE"
                       /\ requests[k].row = call.rows[k]

\* C12: delete_rows sends a delete for every row id it is given, in order,
\* whatever the answers to the earlier ones; it raises only for a missing
\* document id, before any request; and it returns False whenever a delete
\* was not accepted by the remote.
C12_DeleteRowsBestEffort ==
    call.op = "delete_rows" =>
        /\ cpc = "delete_rows" => (c_idx <= Len(call.rows) /\ DeletesSent(c_idx - 1))
        /\ cpc = "returned" => DeletesSent(Len(call.rows))
        /\ cpc = "raised" => requests = <<>>
        /\ (cpc = "returned" /\ \E k \in DOMAIN requests : ~Accepted(requests[k].answer))
               => returned = "False"

\* delete_rows has returned after three deletes of which the first raised,
\* the second was refused and the third was done.
C12_Witness ==
    /\ call.op = "delete_rows"
    /\ cpc = "returned"
    /\ Len(requests) = 3
    /\ requests[1].answer = "exc"
    /\ requests[2].answer = "404"
    /\ requests[3].answer = "200"
    /\ returned = "False"

\* The requests of the running operation answered 200 or 202.
AnsweredOk == {k \in DOMAIN requests : requests[k].answer \in {"200", "202"}}

\* C13: a row-mutation request answered 200 or 202 counts as done and is
\* not reported as a failure: delete_rows returns True when every delete
\* was answered so, update_accounts_table counts every upsert answered so
\* and has no error entry for it, upsert_row does not raise on it.
C13_AcceptedCountsAsSuccess ==
    /\ (call.op = "delete_rows" /\ cpc = "returned" /\ AnsweredOk = DOMAIN requests)
           => returned = "True"
    /\ (call.op = "update_accounts_table" /\ cpc = "returned")
           => /\ returned.updated = Cardinality({k \in AnsweredOk : requests[k].method = "POST"})
              /\ \A k \in AnsweredOk : \A e \in DOMAIN returned.errors :
                     requests[k].method = "POST" => returned.errors[e].key # requests[k].row
    /\ (cpc = "raised" /\ requests # <<>> /\ requests[Len(requests)].method = "POST")
           => Len(requests) \notin AnsweredOk

\* The upserts of update_accounts_table that failed.
FailedUpserts == {k \in DOMAIN requests : requests[k].method = "POST" /\ ~Accepted(requests[k].answer)}
ListingRequests == {k \in DOMAIN requests : requests[k].method = "GET"}

\* C14: update_accounts_table sends an upsert for every account, in order,
\* whatever the answers to the earlier ones (it raises only before its
\* first upsert), and its report has updated + number of errors = total = number of accounts given, with one
\* error entry for each failed upsert, in order, naming that account's id.
C14_AccountsReportAddsUp ==
    /\ (call.op = "update_accounts_table" /\ cpc = "raised") =>
           \A k \in DOMAIN requests : requests[k].method # "POST"
    /\ (call.op = "update_accounts_table" /\ cpc = "returned") =>
        LET n == Len(call.rows)
            first == Cardinality(ListingRequests)
            failed == {k - first : k \in FailedUpserts}
        IN  /\ Len(requests) = first + n
            /\ \A k \in 1..n : /\ requests[first + k].method = "POST"
                               /\ requests[first + k].row = call.rows[k]
                               /\ requests[first + k].keyColumns = <<"Account ID">>
            /\ returned.total = n
            /\ returned.updated + Len(returned.errors) = returned.total
            /\ Len(returned.errors) = Cardinality(failed)
            /\ \A e \in DOMAIN returned.errors :
                 /\ returned.errors[e].key \in {call.rows[k] : k \in failed}
                 /\ \A g \in DOMAIN returned.errors :
                      e < g => returned.errors[e].key < returned.errors[g].key

\* Five accounts of which only the third fails: updated 4, total 5, one
\* error, for the third account.
C14_Witness ==
    /\ call.op = "update_accounts_table"
    /\ cpc = "returned"
    /\ Len(call.rows) = 5
    /\ returned.updated = 4
    /\ returned.total = 5
    /\ Len(returned.errors) = 1
    /\ returned.errors[1].key = call.rows[3]

\* The items of the pages the remote has served, in the order served.
ServedItems == Flatten([k \in 1..Len(requests) |-> requests[k].got])

\* C15: list_tables requests the first page without a token and each later
\* page with the token of the previous response, goes on exactly while the
\* responses carry a token, so makes at most as many requests as the remote
\* has pages, and returns the items of all pages in page order; when a page
\* request fails it raises and returns nothing.
C15_ListTablesFollowsPagination ==
    call.op = "list_tables" =>
        /\ \A k \in DOMAIN requests :
             /\ requests[k].method = "GET"
             /\ requests[k].pageToken = IF k = 1 THEN 0 ELSE requests[k - 1].nextPageToken
             /\ k < Len(requests) => /\ requests[k].answer = "200"
                                     /\ requests[k].nextPageToken # 0
        /\ Len(requests) <= Len(tables)
        /\ (cpc = "list_tables" /\ requests # <<>>)
               => requests[Len(requests)].nextPageToken # 0
        /\ cpc = "returned" =>
               /\ requests[Len(requests)].answer = "200"
               /\ requests[Len(requests)].nextPageToken = 0
               /\ returned = ServedItems
               /\ returned = Flatten(tables)
        /\ (cpc = "raised" /\ requests # <<>>) =>
               /\ requests[Len(requests)].answer # "200"
               /\ returned = None

\* list_tables has returned the items of a listing of three pages, the
\* second of them empty.
C15_Witness ==
    /\ call.op = "list_tables"
    /\ cpc = "returned"
    /\ Len(requests) = 3
    /\ requests[2].got = <<>>
    /\ Len(returned) = 2

\* With weak fairness on the caller's steps a table listing in progress
\* ends: list_tables returns or raises.
LiveSpecClient == SpecClient /\ WF_vars(ClientNext)
ListingEnds ==
    (cpc = "list_tables") ~> (cpc \in {"returned", "raised", "upsert_row", "accounts"})

\* ======================================================================
\* Batch upserts and the remote table (upsert_row and a batch updater's
\* loop, here update_upmarket_funnel's, whose key column is "Stage").

\* The rows a batch is made of.
RowData == [Stage : {"Leads", "Qualified", "Opportunities"}, Total : 1..2]

\* The batches, the orders of a batch of n rows, the tables at the start.
Batches == UNION {[1..n -> RowData] : n \in 0..MaxBatch}
Orders(n) == {f \in [1..n -> 1..n] : \A a, b \in 1..n : f[a] = f[b] => a = b}
TablesAtStart == UNION {[1..n -> RowData] : n \in 0..MaxTable}

\* `key_columns` the batch updater passes to upsert_row.
BatchKeys == <<"Stage">>

\* upsert_row, `cells`: one {column, value} per item of row_data.
Cells(row_data) == {[column |-> c, value |-> row_data[c]] : c \in DOMAIN row_data}

\* A payload that declares no key columns.
Unkeyed(row_data, key_columns) ==
    [rows |-> <<[cells |-> Cells(row_data)]>>, keyColumns |-> <<>>]

\* upsert_row, `payload`.
Payload(row_data, key_columns) ==
    [rows |-> <<[cells |-> Cells(row_data)]>>, keyColumns |-> key_columns]

\* The remote's upsert ("key_columns: list of column names to use as keys
\* for matching"): the rows that agree with the cells on every key column are
\* written with the cells; if there is none, or no key column is declared, a
\* row is added.  Accepted upserts are applied in the order they were
\* accepted; the table here is the table with all of them applied.
CellValue(cells, col) == (CHOOSE c \in cells : c.column = col).value
Matches(row, cells, keys) ==
    /\ keys # <<>>
    /\ \A k \in DOMAIN keys : row[keys[k]] = CellValue(cells, keys[k])
Written(row, cells) ==
    [c \in DOMAIN row |->
        IF \E cell \in cells : cell.column = c THEN CellValue(cells, c) ELSE row[c]]
NewRow(cells) == [c \in {cell.column : cell \in cells} |-> CellValue(cells, c)]
RemoteUpsert(table, payload) ==
    LET cells == payload.rows[1].cells
        hit == {r \in DOMAIN table : Matches(table[r], cells, payload.keyColumns)}
    IN  IF hit = {} THEN Append(table, NewRow(cells))
        ELSE [r \in DOMAIN table |->
                 IF r \in hit THEN Written(table[r], cells) ELSE table[r]]

UpsertInit ==
    /\ DashOff
    /\ ClientOff
    /\ FunnelOff
    /\ u_pc = "once"
    /\ batch \in Batches
    /\ order \in Orders(Len(batch))
    /\ once \in TablesAtStart
    /\ twice = once
    /\ u_idx = 1

\* The batch updater's loop, one turn: upsert_row for the next row of the
\* batch, in the order given.
UpsertOnce ==
    /\ u_pc = "once"
    /\ u_idx <= Len(batch)
    /\ once' = RemoteUpsert(once, Payload(batch[u_idx], BatchKeys))
    /\ u_idx' = u_idx + 1
    /\ UNCHANGED <<u_pc, batch, order, twice>>
    /\ UNCHANGED nonUpsertVars

\* The same loop in the repeated run, which takes the rows in its own order.
UpsertAgain ==
    /\ u_pc \in {"first", "second"}
    /\ u_idx <= Len(batch)
    /\ twice' = RemoteUpsert(twice, Payload(batch[order[u_idx]], BatchKeys))
    /\ u_idx' = u_idx + 1
    /\ UNCHANGED <<u_pc, batch, order, once>>
    /\ UNCHANGED nonUpsertVars

\* A run is over: the updater returns; the repeated run is started, then
\* started again.
RunOver ==
    /\ u_pc \in {"once", "first", "second"}
    /\ u_idx > Len(batch)
    /\ u_pc' = CASE u_pc = "once" -> "first"
                 [] u_pc = "first" -> "second"
                 [] OTHER -> "done"
    /\ u_idx' = 1
    /\ UNCHANGED <<batch, order, once, twice>>
    /\ UNCHANGED nonUpsertVars

UpsertNext ==
    \/ UpsertOnce
    \/ UpsertAgain
    \/ RunOver

SpecUpsert == UpsertInit /\ [][UpsertNext]_vars

\* The key columns tell the rows of the batch apart.
UniqueKeys ==
    \A a, b \in DOMAIN batch :
        (\A k \in DOMAIN BatchKeys : batch[a][BatchKeys[k]] = batch[b][BatchKeys[k]])
            => a = b

\* How many times a row is in a table.
Copies(table, row) == Cardinality({r \in DOMAIN table : table[r] = row})

\* C16: when the key columns tell the rows of a batch apart, upserting the
\* batch twice, in any order, leaves the remote table with the same rows, as
\* many of them, as upserting it once in the order given.
C16_BatchUpsertIdempotent ==
    (u_pc = "done" /\ UniqueKeys) =>
        /\ Len(twice) = Len(once)
        /\ \A row \in Range(once) \cup Range(twice) :
               Copies(twice, row) = Copies(once, row)

\* A batch of two rows, one of which updates a row of the table and one of
\* which adds a row, has been upserted once and, in the other order, twice.
C16_Witness ==
    /\ u_pc = "done"
    /\ UniqueKeys
    /\ Len(batch) = 2
    /\ order = <<2, 1>>
    /\ Len(once) = 2
    /\ Len(twice) = 2
    /\ once[1] = batch[1]
    /\ once[2] = batch[2]

\* ======================================================================
\* UpmarketFunnelGenerator (notebooks/upmarket_funnel.py)

ENTERPRISE_CRITERIA ==
    [mrr_threshold |-> 1000, user_threshold |-> 50, arr_threshold |-> 12000,
     lead_score_min |-> 80]
MIDMARKET_CRITERIA ==
    [mrr_threshold |-> 100, user_threshold |-> 10, arr_threshold |-> 1200,
     lead_score_min |-> 60]
ESTIMATED_ACV == [Enterprise |-> 50000, Midmarket |-> 15000, SMB |-> 5000]

\* The conversion rates, in percent.
CONVERSION_RATES ==
    [Qualified |-> [Enterprise |-> 40, Midmarket |-> 30, SMB |-> 20],
     Opportunities |-> [Enterprise |-> 60, Midmarket |-> 50, SMB |-> 40],
     ClosedWon |-> [Enterprise |-> 30, Midmarket |-> 25, SMB |-> 20]]

Segments == {"Enterprise", "Midmarket", "SMB"}

\* The signals of a lead and the criterion each is compared with.
Signals == {"current_mrr", "user_count", "referral_arr", "lead_score"}
Criterion(signal) ==
    CASE signal = "current_mrr" -> "mrr_threshold"
      [] signal = "user_count" -> "user_threshold"
      [] signal = "referral_arr" -> "arr_threshold"
      [] signal = "lead_score" -> "lead_score_min"

\* The values a signal takes here: 0 and the values at and just below its
\* two thresholds.
SignalValues(signal) ==
    {0, MIDMARKET_CRITERIA[Criterion(signal)] - 1, MIDMARKET_CRITERIA[Criterion(signal)],
     ENTERPRISE_CRITERIA[Criterion(signal)] - 1, ENTERPRISE_CRITERIA[Criterion(signal)]}

\* The leads: dictionaries in which any signal may be missing.
Leads ==
    LET full == [current_mrr : SignalValues("current_mrr"),
                 user_count : SignalValues("user_count"),
                 referral_arr : SignalValues("referral_arr"),
                 lead_score : SignalValues("lead_score")]
    IN  {[k \in present |-> l[k]] : l \in full, present \in SUBSET Signals}

\* The leads handed to generate_funnel here: those with no signal but the
\* lead score.
FunnelLeads == {l \in Leads : DOMAIN l \subseteq {"lead_score"}}

\* The partners, in the order leads_by_partner holds them, and the targets.
Partners == <<"Pyxis", "Other Partner">>
Targets == {0, 20000, 80000}

\* `d.get(key, default)`.
Get(d, key, default) == IF key \in DOMAIN d THEN d[key] ELSE default

\* Comparisons other than `>=`.
Exceeds(value, threshold) == value > threshold
Below(value, threshold) == value < threshold

\* `value >= threshold`.
Meets(value, threshold) == value >= threshold

\* categorize_lead: the segment.
SegmentOf(l) ==
    LET current_mrr == Get(l, "current_mrr", 0)
        user_count == Get(l, "user_count", 0)
        referral_arr == Get(l, "referral_arr", 0)
        lead_score == Get(l, "lead_score", 0)
    IN  IF \/ Meets(current_mrr, ENTERPRISE_CRITERIA.mrr_threshold)
           \/ Meets(user_count, ENTERPRISE_CRITERIA.user_threshold)
           \/ Meets(referral_arr, ENTERPRISE_CRITERIA.arr_threshold)
           \/ Meets(lead_score, ENTERPRISE_CRITERIA.lead_score_min)
        THEN "Enterprise"
        ELSE IF \/ Meets(current_mrr, MIDMARKET_CRITERIA.mrr_threshold)
                \/ Meets(user_count, MIDMARKET_CRITERIA.user_threshold)
                \/ Meets(referral_arr, MIDMARKET_CRITERIA.arr_threshold)
                \/ Meets(lead_score, MIDMARKET_CRITERIA.lead_score_min)
        THEN "Midmarket"
        ELSE "SMB"

\* A LeadCategory that carries the first partner.
OfFirstPartner(l, owner) == [partner |-> Partners[1], segment |-> SegmentOf(l)]

\* categorize_lead: the LeadCategory, of which the partner and the segment
\* are kept.
CategorizeLead(l, owner) == [partner |-> owner, segment |-> SegmentOf(l)]

\* A count that does not look at the segment.
CountAll(categorized, segment) == Len(categorized)

\* `sum(1 for l in categorized_leads if l.segment == segment)`.
CountSegment(categorized, segment) ==
    Cardinality({n \in DOMAIN categorized : categorized[n].segment = segment})

\* A rounding that drops the fraction.
Truncated(num, den) == num \div den

\* A rounding that always goes up.
AlwaysUp(num, den) == num \div den + 1

\* Python's round() of num/den for num >= 0, den > 0: to the nearest
\* integer, a half to the even one.  (For the products count * rate of
\* generate_funnel the float computation gives this value.)
RoundHalfEven(num, den) ==
    LET q == num \div den
        r == num % den
    IN  IF 2 * r > den THEN q + 1
        ELSE IF 2 * r < den THEN q
        ELSE IF q % 2 = 0 THEN q ELSE q + 1

\* `round(count * CONVERSION_RATES[transition][segment])`.
Converted(n, stage, segment) == RoundHalfEven(n * CONVERSION_RATES[stage][segment], 100)

\* `a / b`, kept as the fraction: Python raises ZeroDivisionError when the
\* divisor is 0.
Divide(a, b) == [num |-> a, den |-> b]

\* A conversion rate computed without looking at the divisor.
Unguarded(total, previous) == Divide(total, previous)

\* `total / previous if previous > 0 else 0`: the conversion_rate of a
\* FunnelMetrics.
ConversionRate(total, previous) ==
    IF previous > 0 THEN Divide(total, previous) ELSE Divide(0, 1)

\* A progress computed without looking at the target.
UnguardedProgress(estimated_revenue, target) == Divide(estimated_revenue * 100, target)

\* `(estimated_revenue / current_quarter_target * 100) if
\* current_quarter_target > 0 else 0`.
TargetProgress(estimated_revenue, target) ==
    IF target > 0 THEN Divide(estimated_revenue * 100, target) ELSE Divide(0, 1)

\* The renderings of a fraction x with one decimal, in tenths: scale is 1000
\* for f'{x:.1%}' (tenths of a percent) and 10 for f'{x:.1f}'.  The float
\* is rendered to the nearest tenth; when the fraction lies exactly between
\* two tenths the error of the float decides (23/80 is rendered 28.7%, 1/16
\* is rendered 6.2%), so both are possible.
Shown(x, scale) ==
    LET q == (scale * x.num) \div x.den
        r == (scale * x.num) % x.den
    IN  IF 2 * r > x.den THEN {q + 1}
        ELSE IF 2 * r < x.den THEN {q}
        ELSE {q, q + 1}

\* A FunnelMetrics.
FunnelMetrics(stage, counts, total, acv, rate, revenue) ==
    [stage |-> stage, enterprise_count |-> counts.Enterprise,
     midmarket_count |-> counts.Midmarket, smb_count |-> counts.SMB,
     total_count |-> total, estimated_acv |-> acv, conversion_rate |-> rate,
     estimated_revenue |-> revenue]

\* One row of funnel_stages.
StageRow(stage, counts, total, rate, revenue) ==
    [Stage |-> stage, Enterprise |-> counts.Enterprise,
     Midmarket |-> counts.Midmarket, SMB |-> counts.SMB, Total |-> total,
     ConversionRate |-> rate, EstimatedRevenue |-> revenue]

\* The counts of the stage after a stage with the given counts.
NextCounts(counts, stage) == [g \in Segments |-> Converted(counts[g], stage, g)]
Sum(counts) == counts.Enterprise + counts.Midmarket + counts.SMB

\* A revenue that counts the Enterprise deals only.
EnterpriseOnly(won) == won.Enterprise * ESTIMATED_ACV.Enterprise

\* `won_enterprise * ESTIMATED_ACV['Enterprise'] + won_midmarket * ... +
\* won_smb * ESTIMATED_ACV['SMB']`.
EstimatedRevenue(won) ==
    won.Enterprise * ESTIMATED_ACV.Enterprise +
    won.Midmarket * ESTIMATED_ACV.Midmarket + won.SMB * ESTIMATED_ACV.SMB

\* generate_funnel after the categorization: the four FunnelMetrics and the
\* progress toward the target, before anything is rendered.
Stages(categorized, target) ==
    LET leads == [g \in Segments |-> CountSegment(categorized, g)]
        total_leads == Len(categorized)
        qualified == NextCounts(leads, "Qualified")
        opp == NextCounts(qualified, "Opportunities")
        won == NextCounts(opp, "ClosedWon")
    IN  [stages |->
            <<FunnelMetrics("Leads", leads, total_leads, 0, Divide(1, 1), 0),
              FunnelMetrics("Qualified", qualified, Sum(qualified), 0,
                            ConversionRate(Sum(qualified), total_leads), 0),
              FunnelMetrics("Opportunities", opp, Sum(opp), 0,
                            ConversionRate(Sum(opp), Sum(qualified)), 0),
              FunnelMetrics("Closed Won", won, Sum(won), ESTIMATED_ACV.Enterprise,
                            ConversionRate(Sum(won), Sum(opp)),
                            EstimatedRevenue(won))>>,
         target_progress |-> TargetProgress(EstimatedRevenue(won), target)]

\* The divisions of generate_funnel that have a zero divisor.
DivisionsByZero(computed) ==
    {n \in 1..4 : computed.stages[n].conversion_rate.den = 0}
    \cup {n \in {5} : computed.target_progress.den = 0}

\* The renderings of the three computed conversion rates and of the progress.
Renderings(computed) ==
    [Qualified : Shown(computed.stages[2].conversion_rate, 1000),
     Opportunities : Shown(computed.stages[3].conversion_rate, 1000),
     ClosedWon : Shown(computed.stages[4].conversion_rate, 1000),
     Progress : Shown(computed.target_progress, 10)]

\* generate_funnel after the categorization: its FunnelMetrics and progress
\* (stages, target_progress) and the dictionary returned (funnel_stages,
\* summary, categorized_leads), the rendered values being the given ones.
Funnel(categorized, target, shown) ==
    LET computed == Stages(categorized, target)
        stage == computed.stages
        counts(n) == [Enterprise |-> stage[n].enterprise_count,
                      Midmarket |-> stage[n].midmarket_count,
                      SMB |-> stage[n].smb_count]
        estimated_revenue == stage[4].estimated_revenue
    IN  [stages |-> computed.stages,
         target_progress |-> computed.target_progress,
         funnel_stages |->
            <<StageRow("Leads", counts(1), stage[1].total_count, 1000, 0),
              StageRow("Qualified", counts(2), stage[2].total_count,
                       shown.Qualified, 0),
              StageRow("Opportunities", counts(3), stage[3].total_count,
                       shown.Opportunities, 0),
              StageRow("Closed Won", counts(4), stage[4].total_count,
                       shown.ClosedWon, estimated_revenue)>>,
         summary |->
            [target |-> target, total_leads |-> stage[1].total_count,
             enterprise_leads |-> stage[1].enterprise_count,
             midmarket_leads |-> stage[1].midmarket_count,
             smb_leads |-> stage[1].smb_count,
             estimated_revenue |-> estimated_revenue,
             target_progress |-> shown.Progress,
             gap_to_target |-> target - estimated_revenue],
         categorized_leads |-> categorized]

FunnelInit ==
    /\ DashOff
    /\ ClientOff
    /\ UpsertOff
    /\ f_pc = "categorize"
    /\ partner = None
    /\ lead = <<>>
    /\ categorized_leads = <<>>
    /\ funnel = [funnel_stages |-> <<>>]

\* `for partner, leads in leads_by_partner.items()`: the loop is at the
\* partner of the last lead or at a later one.
PartnersLeft ==
    IF partner = None THEN DOMAIN Partners
    ELSE {p \in DOMAIN Partners :
            \E q \in DOMAIN Partners : q <= p /\ Partners[q] = partner}

\* generate_funnel, one turn of `for partner, leads ...: for lead in leads`.
Categorize ==
    /\ f_pc = "categorize"
    /\ Len(categorized_leads) < MaxLeads
    /\ \E l \in FunnelLeads : \E p \in PartnersLeft :
         /\ partner' = Partners[p]
         /\ lead' = l
         /\ categorized_leads' = Append(categorized_leads, CategorizeLead(l, Partners[p]))
    /\ UNCHANGED <<f_pc, funnel>>
    /\ UNCHANGED nonFunnelVars

\* generate_funnel after the loops, on the list categorized_leads: the
\* counts, the stages, the summary.  A division by zero leaves with
\* ZeroDivisionError.
Generate(target) ==
    LET computed == Stages(categorized_leads, target)
    IN  IF DivisionsByZero(computed) # {}
        THEN /\ f_pc' = "raised"
             /\ UNCHANGED funnel
        ELSE /\ f_pc' = "done"
             /\ \E shown \in Renderings(computed) :
                  funnel' = Funnel(categorized_leads, target, shown)

GenerateFunnel ==
    /\ f_pc = "categorize"
    /\ \E target \in Targets : Generate(target)
    /\ UNCHANGED <<partner, lead, categorized_leads>>
    /\ UNCHANGED nonFunnelVars

FunnelNext ==
    \/ Categorize
    \/ GenerateFunnel

SpecFunnel == FunnelInit /\ [][FunnelNext]_vars

\* categorize_lead called on one lead.
LeadInit ==
    /\ DashOff
    /\ ClientOff
    /\ UpsertOff
    /\ f_pc = "lead"
    /\ partner \in Range(Partners)
    /\ lead \in Leads
    /\ categorized_leads = <<>>
    /\ funnel = [funnel_stages |-> <<>>]

CategorizeOne ==
    /\ f_pc = "lead"
    /\ categorized_leads' = <<CategorizeLead(lead, partner)>>
    /\ f_pc' = "categorized"
    /\ UNCHANGED <<partner, lead, funnel>>
    /\ UNCHANGED nonFunnelVars

SpecLead == LeadInit /\ [][CategorizeOne]_vars

\* generate_funnel after its categorization loops, on lists with up to
\* MaxCount leads of each segment: the rest of the function reads nothing
\* of the list but its length and the segments.
LeadsOf(e, m, s) ==
    [n \in 1..(e + m + s) |->
        [partner |-> Partners[1],
         segment |-> IF n <= e THEN "Enterprise"
                     ELSE IF n <= e + m THEN "Midmarket" ELSE "SMB"]]

StagesInit ==
    /\ DashOff
    /\ ClientOff
    /\ UpsertOff
    /\ f_pc = "categorize"
    /\ partner = Partners[1]
    /\ lead = <<>>
    /\ \E e \in 0..MaxCount : \E m \in 0..MaxCount : \E s \in 0..MaxCount :
         categorized_leads = LeadsOf(e, m, s)
    /\ funnel = [funnel_stages |-> <<>>]

SpecStages == StagesInit /\ [][GenerateFunnel]_vars

\* ----------------------------------------------------------------- claims
\* C17: in every result of generate_funnel each segment's count in
\* Qualified, Opportunities and Closed Won is a non-negative integer not
\* above the same segment's count in the stage before.
C17_LaterStageNeverLarger ==
    f_pc = "done" =>
        \A n \in 2..4 : \A g \in Segments :
            /\ funnel.funnel_stages[n][g] \in Nat
            /\ funnel.funnel_stages[n][g] <= funnel.funnel_stages[n - 1][g]

\* Five Midmarket leads: 2 qualified (1.5 rounded to the even 2), 1
\* opportunity, 0 won.
C17_Witness ==
    /\ f_pc = "done"
    /\ funnel.funnel_stages[1].Midmarket = 5
    /\ funnel.funnel_stages[2].Midmarket = 2
    /\ funnel.funnel_stages[3].Midmarket = 1
    /\ funnel.funnel_stages[4].Midmarket = 0

\* C18: in every result of generate_funnel each stage's total is the sum of
\* its three segment counts; for Leads the total is the number of
\* categorized leads.
C18_TotalIsSumOfSegments ==
    f_pc = "done" =>
        /\ \A n \in 1..4 :
             funnel.funnel_stages[n].Total =
                 funnel.funnel_stages[n].Enterprise
                 + funnel.funnel_stages[n].Midmarket + funnel.funnel_stages[n].SMB
        /\ funnel.funnel_stages[1].Total = Len(funnel.categorized_leads)
        /\ funnel.summary.total_leads =
               funnel.summary.enterprise_leads + funnel.summary.midmarket_leads
               + funnel.summary.smb_leads

\* A funnel of six leads with leads of every segment.
C18_Witness ==
    /\ f_pc = "done"
    /\ funnel.funnel_stages[1].Total = 6
    /\ funnel.funnel_stages[1].Enterprise = 3
    /\ funnel.funnel_stages[1].Midmarket = 2
    /\ funnel.funnel_stages[1].SMB = 1
    /\ funnel.funnel_stages[2].Total = 2

\* The value of a signal of the lead categorized: 0 when it is missing.
SignalValue(k) == IF k \in DOMAIN lead THEN lead[k] ELSE 0
ReachesTier(criteria) == \E k \in Signals : SignalValue(k) >= criteria[Criterion(k)]

\* C19: categorize_lead gives Enterprise exactly when some signal is at or
\* above its Enterprise threshold, otherwise Midmarket exactly when some
\* signal is at or above its Midmarket threshold, otherwise SMB; a missing
\* signal counts as 0.
C19_SegmentByThresholds ==
    f_pc = "categorized" =>
        LET segment == categorized_leads[1].segment
        IN  /\ segment = "Enterprise" <=> ReachesTier(ENTERPRISE_CRITERIA)
            /\ segment = "Midmarket" <=>
                   (~ReachesTier(ENTERPRISE_CRITERIA) /\ ReachesTier(MIDMARKET_CRITERIA))
            /\ segment = "SMB" <=>
                   (~ReachesTier(ENTERPRISE_CRITERIA) /\ ~ReachesTier(MIDMARKET_CRITERIA))

\* A lead whose only signal is a lead score equal to the Enterprise
\* threshold is Enterprise.
C19_Witness ==
    /\ f_pc = "categorized"
    /\ DOMAIN lead = {"lead_score"}
    /\ lead["lead_score"] = ENTERPRISE_CRITERIA.lead_score_min
    /\ categorized_leads[1].segment = "Enterprise"

\* The order of the segments, and the lead with one signal set to w.
Rank(segment) ==
    CASE segment = "SMB" -> 1 [] segment = "Midmarket" -> 2 [] segment = "Enterprise" -> 3
WithSignal(l, k, w) == [j \in DOMAIN l \cup {k} |-> IF j = k THEN w ELSE l[j]]

\* C20: raising one signal of a lead, the others unchanged, never gives a
\* lower segment in the order SMB < Midmarket < Enterprise.
C20_SegmentMonotonic ==
    f_pc = "categorized" =>
        \A k \in Signals : \A w \in SignalValues(k) :
            w > SignalValue(k) =>
                Rank(SegmentOf(WithSignal(lead, k, w))) >= Rank(categorized_leads[1].segment)

\* A Midmarket lead that a higher user count makes Enterprise.
C20_Witness ==
    /\ f_pc = "categorized"
    /\ categorized_leads[1].segment = "Midmarket"
    /\ "user_count" \in DOMAIN lead
    /\ lead["user_count"] = MIDMARKET_CRITERIA.user_threshold
    /\ SegmentOf(WithSignal(lead, "user_count", ENTERPRISE_CRITERIA.user_threshold)) = "Enterprise"

\* The transition into the n-th stage.
TransitionTo(n) ==
    CASE n = 2 -> "Qualified" [] n = 3 -> "Opportunities" [] n = 4 -> "ClosedWon"

\* C21: for every segment and every stage transition the later stage's
\* count is the previous stage's count times the configured rate, rounded
\* to the nearest integer with a half going to the even one and never
\* truncated: a fractional part above one half rounds up; 3 at rate 0.33
\* gives 1 and 10 at rate 0.30 gives 3.
C21_RoundedToNearestHalfEven ==
    /\ RoundHalfEven(3 * 33, 100) = 1
    /\ RoundHalfEven(10 * 30, 100) = 3
    /\ f_pc = "done" =>
         \A n \in 2..4 : \A g \in Segments :
            LET later == funnel.funnel_stages[n][g]
                hundredths == funnel.funnel_stages[n - 1][g]
                              * CONVERSION_RATES[TransitionTo(n)][g]
            IN  /\ 2 * (100 * later - hundredths) <= 100
                /\ 2 * (hundredths - 100 * later) <= 100
                /\ 2 * (100 * later - hundredths) \in {100, -100} => later % 2 = 0
                /\ hundredths % 100 > 50 => later = hundredths \div 100 + 1

\* Two Enterprise leads give 1 qualified (0.8 goes up); ten Midmarket leads
\* give 3 qualified, 2 opportunities (1.5 to the even 2) and 0 won (0.5 to
\* the even 0).
C21_Witness ==
    /\ f_pc = "done"
    /\ funnel.funnel_stages[1].Enterprise = 2
    /\ funnel.funnel_stages[2].Enterprise = 1
    /\ funnel.funnel_stages[1].Midmarket = 10
    /\ funnel.funnel_stages[2].Midmarket = 3
    /\ funnel.funnel_stages[3].Midmarket = 2
    /\ funnel.funnel_stages[4].Midmarket = 0

\* x is a tenth nearest to num/den.
NearestTenth(x, num, den) ==
    /\ 2 * (x * den - 10 * num) <= den
    /\ 2 * (10 * num - x * den) <= den

\* C22: generate_funnel never divides by zero; the target progress it
\* computes and reports is 0 whenever the target is 0, whatever the
\* estimated revenue; when the target is positive the progress is
\* estimated_revenue / target * 100, reported with one decimal.
C22_TargetProgressGuarded ==
    /\ f_pc # "raised"
    /\ f_pc = "done" =>
         LET target == funnel.summary.target
             estimated_revenue == funnel.summary.estimated_revenue
         IN  /\ target = 0 =>
                   /\ funnel.target_progress.num = 0
                   /\ funnel.target_progress.den # 0
                   /\ funnel.summary.target_progress = 0
             /\ target > 0 =>
                   /\ funnel.target_progress = Divide(estimated_revenue * 100, target)
                   /\ NearestTenth(funnel.summary.target_progress,
                                   estimated_revenue * 100, target)

\* A funnel with revenue and a target of 0: the progress reported is 0.
C22_Witness ==
    /\ f_pc = "done"
    /\ funnel.summary.target = 0
    /\ funnel.summary.estimated_revenue > 0
    /\ funnel.summary.target_progress = 0

\* C23: generate_funnel never divides by zero, an empty list of leads
\* included; for Qualified, Opportunities and Closed Won the stage's
\* conversion rate is the stage's total divided by the previous stage's
\* total, and 0 when the previous stage's total is 0; the row shows it as a
\* percentage with one decimal.
C23_ConversionRateGuarded ==
    /\ f_pc # "raised"
    /\ f_pc = "done" =>
         \A n \in 2..4 :
            LET rate == funnel.stages[n].conversion_rate
                total == funnel.stages[n].total_count
                previous == funnel.stages[n - 1].total_count
                shown == funnel.funnel_stages[n].ConversionRate
            IN  /\ rate.den # 0
                /\ previous > 0 =>
                      /\ rate.num * previous = total * rate.den
                      /\ NearestTenth(shown, 100 * total, previous)
                /\ previous = 0 => rate.num = 0 /\ shown = 0

\* The funnel of an empty list of leads: every rate is 0.
C23_Witness ==
    /\ f_pc = "done"
    /\ funnel.summary.total_leads = 0
    /\ \A n \in 2..4 :
         /\ funnel.stages[n].conversion_rate.num = 0
         /\ funnel.funnel_stages[n].ConversionRate = 0

\* C24: the estimated revenue of generate_funnel is the sum over the three
\* segments of the Closed Won count times the segment's ESTIMATED_ACV; the
\* rows of the other stages carry an estimated revenue of 0; the summary's
\* gap to target is the target minus the estimated revenue.
C24_RevenueAndGap ==
    f_pc = "done" =>
        LET won == funnel.funnel_stages[4]
            estimated_revenue == funnel.summary.estimated_revenue
        IN  /\ estimated_revenue =
                  won.Enterprise * ESTIMATED_ACV.Enterprise
                  + won.Midmarket * ESTIMATED_ACV.Midmarket
                  + won.SMB * ESTIMATED_ACV.SMB
            /\ won.EstimatedRevenue = estimated_revenue
            /\ \A n \in 1..3 :
                 /\ funnel.funnel_stages[n].EstimatedRevenue = 0
                 /\ funnel.stages[n].estimated_revenue = 0
            /\ funnel.summary.gap_to_target = funnel.summary.target - estimated_revenue
            /\ funnel.summary.gap_to_target + estimated_revenue = funnel.summary.target

\* One Enterprise and one Midmarket deal won against a target of 20000: the
\* revenue is 65000 and the gap is negative.
C24_Witness ==
    /\ f_pc = "done"
    /\ funnel.funnel_stages[4].Enterprise = 1
    /\ funnel.funnel_stages[4].Midmarket = 1
    /\ funnel.summary.estimated_revenue = 65000
    /\ funnel.summary.target = 20000
    /\ funnel.summary.gap_to_target = -45000
\* The key columns each batch table is declared with.
DeclaredKeys(name) ==
    CASE name = "upmarket_funnel" -> <<"Stage">>
      [] name = "funnel_summary" -> <<"Metric">>
      [] name \in {"managed_revenue", "referral_revenue", "training"} -> <<"Partner">>
      [] name = "partner_summaries" -> <<"Partner", "Section">>

\* The first n rows have been upserted, each once, in their order, with
\* the table's key columns.
UpsertedInOrder(n) ==
    /\ Len(log) = n
    /\ \A k \in 1..n :
         /\ log[k].op = "upsert"
         /\ log[k].row = k
         /\ log[k].keys = DeclaredKeys(UpdateOrder[tbl])

\* C26: a batch updater that has found its table attempts one upsert per
\* input row, in input order, with the table's declared key columns; a
\* failed upsert is caught and reported, the loop goes on to the remaining
\* rows and the updater returns without an exception.
C26_BatchUpsertsEveryRow ==
    (~IsSingleton(tbl) /\ TableResolved) =>
        /\ pc # "raised"
        /\ pc = "upsert" => idx <= batchLen + 1 /\ UpsertedInOrder(idx - 1)
        /\ pc = "ret" =>
             /\ UpsertedInOrder(batchLen)
             /\ status[tbl] = "returned"
             /\ (\E k \in DOMAIN log : ~log[k].ok) <=> "row_error" \in out

\* A batch of MaxBatch rows whose first upsert failed: the later rows were
\* upserted all the same.
C26_Witness ==
    /\ ~IsSingleton(tbl)
    /\ TableResolved
    /\ pc = "ret"
    /\ batchLen >= 2
    /\ Len(log) = batchLen
    /\ ~log[1].ok
    /\ log[batchLen].ok
    /\ "row_error" \in out
\* The segment the thresholds give the lead the loop is at.
SegmentByThresholds ==
    IF ReachesTier(ENTERPRISE_CRITERIA) THEN "Enterprise"
    ELSE IF ReachesTier(MIDMARKET_CRITERIA) THEN "Midmarket" ELSE "SMB"

\* The number of categorized leads of a segment.
RawCount(g) ==
    Cardinality({n \in DOMAIN categorized_leads : categorized_leads[n].segment = g})

\* C27: every lead of every partner that generate_funnel reads adds exactly
\* one categorized lead, carrying the partner that owns the lead and
\* exactly one of the segments Enterprise, Midmarket, SMB; the list is
\* returned as it is, and the Leads stage reports its raw per-segment
\* counts with conversion rate 100% and estimated revenue 0.
C27_OneCategorizedLeadPerLead ==
    [][/\ (f_pc = "categorize" /\ f_pc' = "categorize") =>
            /\ Len(categorized_leads') = Len(categorized_leads) + 1
            /\ SubSeq(categorized_leads', 1, Len(categorized_leads)) = categorized_leads
            /\ categorized_leads'[Len(categorized_leads')].partner = partner'
            /\ categorized_leads'[Len(categorized_leads')].segment \in Segments
            /\ categorized_leads'[Len(categorized_leads')].segment = SegmentByThresholds'
       /\ (f_pc = "categorize" /\ f_pc' # "categorize") =>
            /\ f_pc' = "done"
            /\ categorized_leads' = categorized_leads
            /\ funnel'.categorized_leads = categorized_leads
            /\ funnel'.funnel_stages[1].Stage = "Leads"
            /\ \A g \in Segments : funnel'.funnel_stages[1][g] = RawCount(g)
            /\ funnel'.funnel_stages[1].Total = Len(categorized_leads)
            /\ funnel'.funnel_stages[1].ConversionRate = 1000
            /\ funnel'.funnel_stages[1].EstimatedRevenue = 0
            /\ funnel'.stages[1].conversion_rate = Divide(1, 1)
            /\ funnel'.stages[1].estimated_revenue = 0
      ]_vars

\* A funnel of three leads of two partners, one lead of each segment.
C27_Witness ==
    /\ f_pc = "done"
    /\ Len(funnel.categorized_leads) = 3
    /\ funnel.categorized_leads[1].partner = Partners[1]
    /\ funnel.categorized_leads[3].partner = Partners[2]
    /\ \A g \in Segments : funnel.funnel_stages[1][g] = 1
    /\ funnel.funnel_stages[1].ConversionRate = 1000
    /\ funnel.funnel_stages[1].EstimatedRevenue = 0
\* The call is update_partner_metrics, past its check of the document id.
InPartnerMetrics ==
    /\ call.op = "update_partner_metrics"
    /\ cpc # "ready"
    /\ raised # "ValueError: Document ID required"
UpsertRequests == {k \in DOMAIN requests : requests[k].method = "POST"}
ListedUnderName(id) ==
    \E item \in Range(Flatten(tables)) :
        item.name = WantedName("update_partner_metrics") /\ item.id = id

NameListed ==
    \E item \in Range(Flatten(tables)) :
        item.name = WantedName("update_partner_metrics")

\* C28: update_partner_metrics takes the explicit table id if one is given,
\* otherwise the default table id parsed from the document URL, otherwise
\* the id the table listing gives for the name; with an explicit or a
\* default id it sends no table-listing request; with neither, and the
\* name absent from the listing, it sends no upsert and does not return.
C28_TableResolutionOrder ==
    InPartnerMetrics =>
        /\ Truthy(call.table_id) =>
              /\ ListingRequests = {}
              /\ c_table_id = call.table_id
              /\ \A k \in UpsertRequests : requests[k].table = call.table_id
        /\ (~Truthy(call.table_id) /\ Truthy(self.default_table_id)) =>
              /\ ListingRequests = {}
              /\ c_table_id = self.default_table_id
              /\ \A k \in UpsertRequests : requests[k].table = self.default_table_id
        /\ (~Truthy(call.table_id) /\ ~Truthy(self.default_table_id)) =>
              /\ \A k \in UpsertRequests :
                    /\ ListedUnderName(requests[k].table)
                    /\ ListingRequests # {}
                    /\ \A g \in ListingRequests : g < k
              /\ ~NameListed =>
                    /\ UpsertRequests = {}
                    /\ cpc # "returned"
                    /\ cpc = "raised" =>
                          raised \in {"ValueError: Table not found", "HTTPError",
                                      "ConnectionError"}

\* No explicit table id and a default one from the document URL: the upsert
\* went to the default table and nothing was listed.
C28_Witness ==
    /\ InPartnerMetrics
    /\ cpc = "returned"
    /\ ~Truthy(call.table_id)
    /\ self.default_table_id = "T1"
    /\ ListingRequests = {}
    /\ UpsertRequests # {}
    /\ \A k \in UpsertRequests : requests[k].table = "T1"

\* ======================================================================
\* parse_coda_url called on one locator.
\* ======================================================================
\* The parts of the locators: names of documents and tables, identifiers
\* (of [A-Za-z0-9], some starting with or ending in `d`), page anchors,
\* what precedes `/d/`.
Names == {<<"n">>, <<"n", "_", "m">>, <<"n", "-", "m">>}
Ids == {<<"B">>, <<"d">>, <<"d", "B">>, <<"B", "1", "d">>}
Anchors == {<<>>, <<"#", "p">>, <<"#", "p", "_", "1">>}
Prefixes == {<<>>, <<"h", ":", "/", "/", "c">>}
TableSegments == {<<"/">> \o name \o <<"_">> \o id : name \in Names, id \in Ids}

\* `<prefix>/d/<name>_d<DOC><table segment><anchor>`.
Locator(prefix, name, doc, table, anchor) ==
    prefix \o <<"/", "d", "/">> \o name \o <<"_", "d">> \o doc \o table \o anchor

Locators ==
    {Locator(prefix, name, doc, table, anchor) :
        prefix \in Prefixes, name \in Names, doc \in Ids,
        table \in TableSegments \cup {<<>>}, anchor \in Anchors}

\* Strings with no document segment: no `/d/`, or no `_` after it.
Strays ==
    {<<>>, <<"/", "x">>, <<"/", "d", "/">>, <<"/", "d", "/", "n">>,
     <<"h", ":", "/", "/", "c", "/", "n", "_", "d", "B">>}

ParseInit ==
    /\ DashOff
    /\ UpsertOff
    /\ FunnelOff
    /\ environ = [CODA_API_TOKEN |-> None, CODA_DOC_ID |-> None]
    /\ cpc = "parse"
    /\ self = [api_token |-> None, doc_id |-> None, default_table_id |-> None]
    /\ \E url \in Locators \cup Strays : call = [op |-> "parse_coda_url", url |-> url]
    /\ requests = <<>>
    /\ tables = <<>>
    /\ c_page_token = 0
    /\ c_all_items = <<>>
    /\ after = None
    /\ c_table_id = None
    /\ c_idx = 1
    /\ c_count = 0
    /\ c_errors = <<>>
    /\ returned = None
    /\ raised = None

\* parse_coda_url(url).
ParseUrl ==
    /\ cpc = "parse"
    /\ LET parsed == ParseCodaUrl(call.url)
       IN  IF parsed.ok
           THEN /\ cpc' = "returned"
                /\ returned' = [doc_id |-> parsed.doc_id, table_id |-> parsed.table_id]
                /\ UNCHANGED raised
           ELSE /\ ClientRaise("ValueError: Could not parse Coda URL")
                /\ UNCHANGED returned
    /\ UNCHANGED <<environ, self, call, requests, tables, c_page_token,
                   c_all_items, after, c_table_id, c_idx, c_count, c_errors>>
    /\ UNCHANGED nonClientVars

SpecUrl == ParseInit /\ [][ParseUrl]_vars

\* ----------------------------------------------------------------- claims
Parsed == call.op = "parse_coda_url" /\ cpc # "parse"

\* A locator with a document segment `<name>_d<DOC>` and a table segment
\* `<tablename>_<TBL>` gives (DOC, TBL).
ParsesDocAndTable ==
    Parsed =>
        \A prefix \in Prefixes : \A name \in Names : \A doc \in Ids :
        \A tablename \in Names : \A tbl_id \in Ids : \A anchor \in Anchors :
            call.url = Locator(prefix, name, doc,
                               <<"/">> \o tablename \o <<"_">> \o tbl_id, anchor)
            => /\ cpc = "returned"
               /\ returned = [doc_id |-> Join(doc), table_id |-> Join(tbl_id)]

\* A locator with no table segment gives (DOC, None).
ParsesDocAlone ==
    Parsed =>
        \A prefix \in Prefixes : \A name \in Names : \A doc \in Ids :
        \A anchor \in Anchors :
            call.url = Locator(prefix, name, doc, <<>>, anchor)
            => /\ cpc = "returned"
               /\ returned = [doc_id |-> Join(doc), table_id |-> None]

\* A string with no document segment fails.
FailsWithoutDocument ==
    (Parsed /\ call.url \in Strays) => (cpc = "raised" /\ returned = None)

\* C25: parse_coda_url, given a locator whose document segment is
\* `<name>_d<DOC>` and whose table segment is `<tablename>_<TBL>`, returns
\* document id DOC, the prefix `d` stripped, and table id TBL; given a
\* locator with no table segment it returns the document id and no table
\* id; given a string with no document segment it fails with an error.
C25_ParseCodaUrl ==
    /\ ParsesDocAndTable
    /\ ParsesDocAlone
    /\ FailsWithoutDocument
\* ======================================================================
\* get_current_quarter_target called on one date.
\* ======================================================================
\* The years and months datetime.now() is taken from.
Years == 2024..2028
Months == 1..12

\* get_current_quarter_target, current_year and current_month being those
\* of datetime.now().
GetCurrentQuarterTarget(current_year, current_month) ==
    IF current_year = 2025 \/ (current_year = 2026 /\ current_month <= 3)
    THEN 20000
    ELSE IF current_year = 2026 /\ 4 <= current_month /\ current_month <= 6
    THEN 80000
    ELSE IF current_year = 2026 /\ 7 <= current_month /\ current_month <= 9
    THEN 0
    ELSE IF current_year = 2026 /\ 10 <= current_month /\ current_month <= 12
    THEN 0
    ELSE 20000

TargetInit ==
    /\ DashOff
    /\ UpsertOff
    /\ FunnelOff
    /\ environ = [CODA_API_TOKEN |-> None, CODA_DOC_ID |-> None]
    /\ cpc = "target"
    /\ self = [api_token |-> None, doc_id |-> None, default_table_id |-> None]
    /\ \E y \in Years : \E m \in Months :
         call = [op |-> "get_current_quarter_target", year |-> y, month |-> m]
    /\ requests = <<>>
    /\ tables = <<>>
    /\ c_page_token = 0
    /\ c_all_items = <<>>
    /\ after = None
    /\ c_table_id = None
    /\ c_idx = 1
    /\ c_count = 0
    /\ c_errors = <<>>
    /\ returned = None
    /\ raised = None

\* get_current_quarter_target().
GetTarget ==
    /\ cpc = "target"
    /\ cpc' = "returned"
    /\ returned' = GetCurrentQuarterTarget(call.year, call.month)
    /\ UNCHANGED <<environ, self, call, requests, tables, c_page_token,
                   c_all_items, after, c_table_id, c_idx, c_count, c_errors, raised>>
    /\ UNCHANGED nonClientVars

SpecTarget == TargetInit /\ [][GetTarget]_vars

\* ----------------------------------------------------------------- claims
\* C29: get_current_quarter_target returns 20000, the 2026 Q1 target, for
\* any date in 2025 or in January to March 2026, 80000 for April to June
\* 2026, and 20000 for any date that matches no quarter with a configured
\* target.
C29_QuarterTarget ==
    (call.op = "get_current_quarter_target" /\ cpc = "returned") =>
        LET q1 == call.year = 2025 \/ (call.year = 2026 /\ call.month \in 1..3)
            q2 == call.year = 2026 /\ call.month \in 4..6
        IN  /\ q1 => returned = 20000
            /\ q2 => returned = 80000
            /\ (~q1 /\ ~q2) => returned = 20000
====
